---- MODULE Spec2Model ----
(***************************************************************************)
(* Model of the debate orchestrator of the Counterfactual Oracle backend   *)
(* (app/domain/agents/debate_agent.py) together with the statement         *)
(* validator it calls (app/domain/agents/validator.py).                    *)
(*                                                                         *)
(* External language-model calls are modelled as nondeterministic inputs:  *)
(* a call either raises or returns a text.  A text returned by a call      *)
(* that is machine-parsed is a sequence of tokens (prose, a ``` fence, a   *)
(* ```json fence, or a JSON value), so that the fence stripping and the    *)
(* JSON parse of the code are computed and not assumed.                    *)
(***************************************************************************)
EXTENDS Integers, Sequences, FiniteSets, TLC

VARIABLES
    max_rounds,             \* parameter of run_debate
    convergence_threshold,  \* parameter of run_debate
    pc,                     \* position of run_debate
    round_num,              \* loop variable of run_debate (1 before the loop)
    debate_log,             \* the transcript
    convergence_counter,
    converged,
    convergence_round,
    deepseek_challenge,     \* local of run_debate: latest Skeptic text
    optimist_response,      \* local of run_debate: latest Optimist text
                            \* (optimist_opening in round 1)
    attempt,                \* loop variable of the Optimist retry loop
    text,                   \* local of the Optimist helper: last generated text
    prompt,                 \* local of the Optimist helper: feedback appended so far
    result,                 \* the value run_debate returned
    attemptLog,             \* history: attempts of the current Optimist turn
    validated,              \* history: authors of the texts handed to validate_statement
    qualHistory,            \* history: outcome of each _check_convergence call
    lastCheck,              \* history: details of the latest _check_convergence
    synthReply,             \* history: outcome of the synthesis call
    promptFrom,             \* history: the turn the latest persona prompt was
                            \* built for, and the text it embeds
    faults,                 \* history: failed or rejected external calls so far
    calls,                  \* history: external calls issued so far, per site
                            \* (the validator's: in the current Optimist turn)
    \* RealismValidatorAgent.validate_statement, called on its own
    v_pc,                   \* position in validate_statement
    v_statement,            \* argument: the statement
    v_reply,                \* history: outcome of the external call
    v_calls,                \* history: number of external calls issued
    v_result,               \* the value validate_statement returned
    \* check_balance_sheet
    b_pc,                   \* position in check_balance_sheet
    b_sheet,                \* argument: report.balance_sheet
    b_result,               \* the outcome: the returned dict, or a raise
    b_given,                \* history: the sheet as the caller built it
    b_second,               \* the outcome of a second call on the same sheet
    b_errors,               \* what validate_balance_sheet returned for the sheet
    \* run_monte_carlo, called twice by one caller
    e_pc,                   \* how many calls have returned or raised
    e_report,               \* argument: base_report
    e_params,               \* argument: params
    e_num,                  \* argument: num_simulations
    e_first,                \* the outcome of the first call
    e_second,               \* the outcome of the second call
    \* execute_scenario_task
    t_pc,                   \* position in execute_scenario_task
    t_found,                \* whether the scenario row is in the database
    scenario,               \* the scenario row
    t_report_data,          \* argument: report_data
    t_params,               \* argument: params
    t_keys,                 \* the credentials get_api_key finds
    t_engine,               \* history: outcome of run_monte_carlo in
                            \* SimulationService.run_simulation
    t_simulation,           \* local: simulation_results
    t_critic,               \* local: critic_verdict
    t_reply,                \* history: outcome of the enrichment call
    \* AgentsService.run_debate, run by two background tasks at once
    api_keys,               \* settings._api_keys, the session store
    environ,                \* the environment variables of the process
    genai_key,              \* the key genai.configure set for the process
    runs                    \* per run: position, locals, agent, transcript

debateVars ==
    <<max_rounds, convergence_threshold, pc, round_num, debate_log,
      convergence_counter, converged, convergence_round,
      deepseek_challenge, optimist_response, attempt, text, prompt, result,
      attemptLog, validated, qualHistory, lastCheck, synthReply, promptFrom,
      faults, calls>>

validatorVars == <<v_pc, v_statement, v_reply, v_calls, v_result>>

balanceVars == <<b_pc, b_sheet, b_result, b_given, b_second, b_errors>>

engineVars == <<e_pc, e_report, e_params, e_num, e_first, e_second>>

taskVars ==
    <<t_pc, t_found, scenario, t_report_data, t_params, t_keys, t_engine,
      t_simulation, t_critic, t_reply>>

agentsVars == <<api_keys, environ, genai_key, runs>>

\* what the steps of run_debate leave alone
nonDebateVars ==
    <<validatorVars, balanceVars, engineVars, taskVars, agentsVars>>

\* what the steps of validate_statement leave alone
nonValidatorVars ==
    <<debateVars, balanceVars, engineVars, taskVars, agentsVars>>

\* what check_balance_sheet leaves alone
nonBalanceVars ==
    <<debateVars, validatorVars, engineVars, taskVars, agentsVars>>

\* what run_monte_carlo leaves alone
nonEngineVars ==
    <<debateVars, validatorVars, balanceVars, taskVars, agentsVars>>

\* what the steps of execute_scenario_task leave alone
nonTaskVars ==
    <<debateVars, validatorVars, balanceVars, engineVars, agentsVars>>

\* what the steps of AgentsService.run_debate and of the key routes leave alone
nonAgentsVars ==
    <<debateVars, validatorVars, balanceVars, engineVars, taskVars>>

vars ==
    <<debateVars, validatorVars, balanceVars, engineVars, taskVars,
      agentsVars>>

----------------------------------------------------------------------------
(* Bounds of the model *)

MaxRounds == 5
MaxThreshold == 2
MaxFaults == 3
\* largest num_simulations handed to run_monte_carlo
MaxTrials == 3
MaxTurns == 2

----------------------------------------------------------------------------
(* Program constants *)

\* convergence_round = None
NoRound == 0
\* for attempt in range(3)
MaxAttempts == 3
\* if len(debate_log) < 4: return False
MinTurnsForCheck == 4
\* "PARTIAL" in result and len(debate_log) >= 8
PartialMinTurns == 8

Verdicts == {"Buy", "Cautious Buy", "Hold", "Cautious Sell", "Sell"}
ConfidenceLevels == {"High", "Medium", "Low"}

----------------------------------------------------------------------------
(* JSON values and response texts *)

JNull == [t |-> "null"]
JBool(b) == [t |-> "bool", b |-> b]
JStr(s) == [t |-> "str", s |-> s]
JList(l) == [t |-> "list", l |-> l]
JObj(o) == [t |-> "obj", o |-> o]

Prose == [k |-> "prose"]
Fence == [k |-> "fence"]
FenceJson == [k |-> "fence_json"]
Json(v) == [k |-> "json", val |-> v]

\* Python truthiness of a parsed JSON value
Truthy(v) ==
    CASE v.t = "null" -> FALSE
      [] v.t = "bool" -> v.b
      [] v.t = "str" -> v.s # ""
      [] v.t = "list" -> v.l # <<>>
      [] v.t = "obj" -> DOMAIN v.o # {}

\* sep in text
Contains(txt, sep) == \E i \in 1..Len(txt) : txt[i] = sep

\* text.split(sep), for a text that contains sep
RECURSIVE Split(_, _)
Split(txt, sep) ==
    IF ~Contains(txt, sep) THEN <<txt>>
    ELSE LET i == CHOOSE j \in 1..Len(txt) :
                    txt[j] = sep /\ \A m \in 1..(j - 1) : txt[m] # sep
         IN <<SubSeq(txt, 1, i - 1)>> \o Split(SubSeq(txt, i + 1, Len(txt)), sep)

\* json.loads(text): the parsed value, or a failure
ParseError == [t |-> "error"]
json_loads(txt) ==
    IF Len(txt) = 1 /\ txt[1].k = "json" THEN txt[1].val ELSE ParseError

----------------------------------------------------------------------------
(* External calls: a call raises, or returns a text *)

Raise == [ok |-> FALSE]
Reply(txt) == [ok |-> TRUE, text |-> txt]

\* a text produced by a persona: who wrote it, in which round and attempt,
\* and the phrases of interest to the validator that occur in it
NewText(by, r, a, ph) == [by |-> by, round |-> r, attempt |-> a, phrases |-> ph]
NoText == [by |-> "nobody", round |-> 0, attempt |-> 0, phrases |-> {}]

----------------------------------------------------------------------------
(* RealismValidatorAgent *)

blocklist ==
    << "new product", "product launch", "market expansion",
       "pre-order", "internal projection", "market research",
       "partner demand", "customer retention program",
       "marketing efficiency", "unspecified cost savings" >>

\* mutant: the scan compares the statement as written
Lower_AsWritten(phrase) == phrase

\* statement.lower()
Lower(phrase) ==
    CASE phrase = "New Product Launch" -> "new product launch"
      [] phrase = "PRE-ORDER" -> "pre-order"
      [] OTHER -> phrase

\* term in <lowercased phrase>, for the phrases the model generates
OccursIn(term, lowered) ==
    \/ term = lowered
    \/ lowered = "new product launch" /\ term \in {"new product", "product launch"}

\* [term for term in self.blocklist if term in statement.lower()]
found_blocked(statement) ==
    SelectSeq(blocklist,
              LAMBDA term : \E ph \in statement.phrases : OccursIn(term, Lower(ph)))

\* the fence stripping of validate_statement
validator_strip(txt) ==
    IF Contains(txt, FenceJson)
    THEN Split(Split(txt, FenceJson)[2], Fence)[1]
    ELSE IF Contains(txt, Fence)
         THEN Split(Split(txt, Fence)[2], Fence)[1]
         ELSE txt

\* mutant: a failed validation rejects the statement
FailOpen_Closed ==
    JObj([is_valid |-> JBool(FALSE), issues |-> JList(<<>>), feedback |-> JStr("")])

\* the fallback of the except branch
FailOpen ==
    JObj([is_valid |-> JBool(TRUE), issues |-> JList(<<>>), feedback |-> JStr("")])

\* TRUE when validate_statement issues its external call
validator_calls_model(statement) == found_blocked(statement) = <<>>

\* the value validate_statement returns; reply is the outcome of its external call
validate_statement(statement, reply) ==
    LET found == found_blocked(statement)
    IN IF found # <<>>
       THEN JObj([is_valid |-> JBool(FALSE),
                  issues |-> JList(found),
                  feedback |-> JStr("remove blocked terms")])
       ELSE IF ~reply.ok
            THEN FailOpen
            ELSE LET r == json_loads(validator_strip(reply.text))
                 IN IF r = ParseError THEN FailOpen ELSE r

----------------------------------------------------------------------------
(* DebateAgent: helpers *)

Turn(r, speaker, role, message, topic) ==
    [round_number |-> r, speaker |-> speaker, role |-> role,
     message |-> message, topic_focus |-> topic]

\* value[key] succeeds
Subscriptable(v, key) == v.t = "obj" /\ key \in DOMAIN v.o

\* what one pass of the Optimist retry loop does with its generation outcome
\* and the validator's value
AttemptKind(gen, validation) ==
    IF ~gen.ok THEN "gen_raised"
    ELSE IF ~Subscriptable(validation, "is_valid") THEN "val_raised"
    ELSE IF Truthy(validation.o.is_valid) THEN "valid"
    ELSE IF Subscriptable(validation, "issues") /\ Subscriptable(validation, "feedback")
         THEN "rejected"
         ELSE "val_raised"

\* if attempt == 2: raise e
LastAttempt == 2

\* mutant: the loop never falls back to a rejected text
LoopReturns_OnlyValid(kind, a) == kind = "valid"

\* a loop that allows a rejected text one attempt more
LoopReturns_OneMore(kind, a) ==
    kind = "valid" \/ (kind = "rejected" /\ a >= MaxAttempts)

\* the retry loop returns in this pass
LoopReturns(kind, a) == kind = "valid" \/ (kind = "rejected" /\ a + 1 >= MaxAttempts)

\* a loop that raises only when no attempt is left and swallows the error of
\* the third attempt
LoopRaises_Swallowed(kind, a) ==
    kind \in {"gen_raised", "val_raised"} /\ a > LastAttempt

\* the retry loop raises in this pass
LoopRaises(kind, a) == kind \in {"gen_raised", "val_raised"} /\ a = LastAttempt

\* words of a convergence reply, and str.upper()
Upper(w) ==
    CASE w = "converged" -> "CONVERGED"
      [] w = "partial" -> "PARTIAL"
      [] w = "diverged" -> "DIVERGED"
      [] OTHER -> w

\* label in response.text.strip().upper()
InUpper(label, txt) == \E i \in 1..Len(txt) : Upper(txt[i]) = label

\* mutant: PARTIAL qualifies whatever the length of the transcript
check_convergence_NoGrace(log, reply) ==
    IF Len(log) < MinTurnsForCheck
    THEN [called |-> FALSE, value |-> FALSE]
    ELSE [called |-> TRUE,
          value |-> IF ~reply.ok THEN FALSE
                    ELSE IF InUpper("CONVERGED", reply.text) THEN TRUE
                    ELSE IF InUpper("PARTIAL", reply.text) THEN TRUE
                    ELSE FALSE]

\* mutant: the classification call is issued whatever the length of the
\* transcript
check_convergence_NoMinimum(log, reply) ==
    [called |-> TRUE,
     value |-> IF ~reply.ok THEN FALSE
               ELSE IF InUpper("CONVERGED", reply.text) THEN TRUE
               ELSE IF InUpper("PARTIAL", reply.text) /\ Len(log) >= PartialMinTurns
                    THEN TRUE
                    ELSE FALSE]

\* mutant: a transcript of three turns is already long enough to classify
check_convergence_FromThree(log, reply) ==
    IF Len(log) < MinTurnsForCheck - 1
    THEN [called |-> FALSE, value |-> FALSE]
    ELSE [called |-> TRUE,
          value |-> IF ~reply.ok THEN FALSE
                    ELSE IF InUpper("CONVERGED", reply.text) THEN TRUE
                    ELSE IF InUpper("PARTIAL", reply.text) /\ Len(log) >= PartialMinTurns
                         THEN TRUE
                         ELSE FALSE]

\* mutant: a classification call that raises counts as a qualifying check
check_convergence_RaiseQualifies(log, reply) ==
    IF Len(log) < MinTurnsForCheck
    THEN [called |-> FALSE, value |-> FALSE]
    ELSE [called |-> TRUE,
          value |-> IF ~reply.ok THEN TRUE
                    ELSE IF InUpper("CONVERGED", reply.text) THEN TRUE
                    ELSE IF InUpper("PARTIAL", reply.text) /\ Len(log) >= PartialMinTurns
                         THEN TRUE
                         ELSE FALSE]

\* _check_convergence: called is TRUE when the external call is issued
check_convergence(log, reply) ==
    IF Len(log) < MinTurnsForCheck
    THEN [called |-> FALSE, value |-> FALSE]
    ELSE [called |-> TRUE,
          value |-> IF ~reply.ok THEN FALSE
                    ELSE IF InUpper("CONVERGED", reply.text) THEN TRUE
                    ELSE IF InUpper("PARTIAL", reply.text) /\ Len(log) >= PartialMinTurns
                         THEN TRUE
                         ELSE FALSE]

\* mutant: the loop runs one round too many
InRange_OneMore(r, m) == 2 <= r /\ r <= m + 1

\* for round_num in range(2, max_rounds + 1): r is a value of the loop
InRange(r, m) == 2 <= r /\ r < m + 1

\* mutant: a non-qualifying check leaves the counter as it is
CounterAfter_NoReset(counter, qualifies) == IF qualifies THEN counter + 1 ELSE counter

\* the counter after a check: incremented, or reset
CounterAfter(counter, qualifies) == IF qualifies THEN counter + 1 ELSE 0

\* mutant: convergence is declared one qualifying round late
Declares_Late(qualifies, counter, threshold) == qualifies /\ counter > threshold

\* if convergence_counter >= convergence_threshold
Declares(qualifies, counter, threshold) == qualifies /\ counter >= threshold

\* the fence stripping of _synthesize_consensus
consensus_strip(txt) ==
    IF Contains(txt, FenceJson)
    THEN Split(Split(txt, FenceJson)[2], Fence)[1]
    ELSE IF Contains(txt, Fence)
         THEN Split(Split(txt, Fence)[2], Fence)[1]
         ELSE txt

\* data.get(key, default)
Get(data, key, default) == IF key \in DOMAIN data.o THEN data.o[key] ELSE default

\* mutant: the fallback reports the default confidence of the success path
Fallback_Medium ==
    [summary |-> JStr("could not generate a structured consensus summary"),
     agreements |-> JList(<<"Debate completed">>),
     disagreements |-> JList(<<"See transcript for details">>),
     verdict |-> JStr("Hold"),
     confidence |-> JStr("Medium")]

Fallback ==
    [summary |-> JStr("could not generate a structured consensus summary"),
     agreements |-> JList(<<"Debate completed">>),
     disagreements |-> JList(<<"See transcript for details">>),
     verdict |-> JStr("Hold"),
     confidence |-> JStr("Low")]

\* _synthesize_consensus
synthesize_consensus(reply) ==
    IF ~reply.ok THEN Fallback
    ELSE LET data == json_loads(consensus_strip(reply.text))
         IN IF data = ParseError \/ data.t # "obj"
            THEN Fallback
            ELSE [summary |-> Get(data, "summary", JStr("Consensus reached.")),
                  agreements |-> Get(data, "agreements", JList(<<>>)),
                  disagreements |-> Get(data, "disagreements", JList(<<>>)),
                  verdict |-> Get(data, "verdict", JStr("Hold")),
                  confidence |-> Get(data, "confidence", JStr("Medium"))]

\* the field types DebateResult declares; construction raises when they fail
DebateResultAccepts(consensus) ==
    /\ consensus.summary.t = "str"
    /\ consensus.agreements.t = "list"
    /\ consensus.disagreements.t = "list"
    /\ consensus.verdict.t = "str"
    /\ consensus.confidence.t = "str"

\* mutant: the rounds are counted as the completed Optimist/Skeptic pairs
total_rounds_Pairs(log) == Len(log) \div 2

\* len(set(t.round_number for t in debate_log))
total_rounds(log) == Cardinality({log[i].round_number : i \in 1..Len(log)})

----------------------------------------------------------------------------
(* Inputs: what the external calls can answer *)

\* generation outcomes of the Optimist backend
GenPhrases == { {}, {"new product launch"} }
GenOutcomes == {Raise} \cup {[ok |-> TRUE, phrases |-> ph] : ph \in GenPhrases}

\* outcomes of the validator's external call
ValidatorReplies ==
    { Raise,
      Reply(<<Prose>>),
      Reply(<<Json(FailOpen)>>),
      Reply(<<FenceJson,
              Json(JObj([is_valid |-> JBool(FALSE),
                         issues |-> JList(<<"EBITDA figure not in context">>),
                         feedback |-> JStr("cite actual EBITDA")])),
              Fence>>),
      Reply(<<Json(JObj([issues |-> JList(<<>>)]))>>),
      Reply(<<Json(JList(<<>>))>>) }

\* outcomes of the convergence-classification call
ConvergenceReplies ==
    { Raise,
      Reply(<<"CONVERGED">>),
      Reply(<<"PARTIAL">>), Reply(<<"partial">>),
      Reply(<<"DIVERGED">>) }

\* outcomes of the synthesis call
GoodConsensus ==
    JObj([agreements |-> JList(<<"NPV is positive">>),
          disagreements |-> JList(<<"OpEx trend">>),
          verdict |-> JStr("Cautious Buy"),
          confidence |-> JStr("High"),
          summary |-> JStr("Both analysts expect a positive NPV.")])

SynthesisReplies ==
    { Raise,
      Reply(<<Prose>>),
      Reply(<<Json(GoodConsensus)>>),
      Reply(<<FenceJson, Json(GoodConsensus), Fence>>),
      Reply(<<Prose, Fence, Json(GoodConsensus), Fence, Prose>>),
      Reply(<<Prose, Json(GoodConsensus)>>),
      Reply(<<Json(JList(<<"Hold">>))>>),
      Reply(<<Json(JStr("Buy"))>>),
      Reply(<<Json(JObj([summary |-> JStr("Mixed views.")]))>>),
      Reply(<<Json(JObj([verdict |-> JStr("Strong Buy"),
                         confidence |-> JStr("Very High")]))>>),
      Reply(<<Json(JObj([verdict |-> JNull, confidence |-> JStr("Low")]))>>) }

----------------------------------------------------------------------------
(* State machine of DebateAgent.run_debate *)

\* no persona prompt was built yet
NoPrompt == [role |-> "nobody", round |-> 0, text |-> NoText]

\* no external call of the validator was made
NoReply == [ok |-> FALSE, made |-> FALSE]

\* no balance sheet, and no outcome of a call yet
NoSheet == [Assets |-> <<>>, Liabilities |-> <<>>, Equity |-> <<>>]
NoOutcome == [ok |-> FALSE, made |-> FALSE]

\* no report
NoReport ==
    [Revenue |-> 0, GrossProfit |-> 0, OpEx |-> 0,
     DepreciationAndAmortization |-> 0, InterestExpense |-> 0,
     CapEx |-> 0, ChangeInWorkingCapital |-> 0, kpis |-> <<>>]

\* ScenarioParams()
DefaultParams ==
    [opex_delta_bps |-> 0, revenue_growth_bps |-> 0,
     discount_rate_bps |-> 0, tax_rate_delta_bps |-> 0]

\* a nullable column or local: None, or a value
None == [set |-> FALSE]
Some(x) == [set |-> TRUE, v |-> x]

\* the row create_scenario adds
NewScenario(params) ==
    [status |-> "PENDING", params |-> params, progress |-> 0,
     simulation_results |-> None, critic_verdict |-> None,
     debate_result |-> None, final_verdict |-> None, error_message |-> None]

\* no synthesis call was made yet
NoSynthesis == [ok |-> FALSE, made |-> FALSE]

NoCheck == [len |-> 0, called |-> FALSE, reply |-> Raise, value |-> FALSE]

NoResult ==
    [debate_log |-> <<>>, total_rounds |-> 0, converged |-> FALSE,
     convergence_round |-> NoRound, consensus_summary |-> "",
     key_agreements |-> <<>>, key_disagreements |-> <<>>,
     final_verdict |-> "", confidence_level |-> ""]

\* the locals of run_debate before its first statement
\* no external call was issued yet
NoCalls ==
    [optimist |-> 0, validator_turn |-> 0, skeptic |-> 0, classifier |-> 0,
     synthesis |-> 0]

DebateStart ==
    /\ round_num = 1
    /\ debate_log = <<>>
    /\ convergence_counter = 0
    /\ converged = FALSE
    /\ convergence_round = NoRound
    /\ deepseek_challenge = NoText
    /\ optimist_response = NoText
    /\ attempt = 0
    /\ text = NoText
    /\ prompt = <<>>
    /\ result = NoResult
    /\ attemptLog = <<>>
    /\ validated = {}
    /\ qualHistory = <<>>
    /\ lastCheck = NoCheck
    /\ synthReply = NoSynthesis
    /\ promptFrom = NoPrompt
    /\ faults = 0
    /\ calls = NoCalls

\* no debate is running
DebateOff ==
    /\ max_rounds = 1
    /\ convergence_threshold = 1
    /\ pc = "off"
    /\ DebateStart

\* validate_statement is not being called on its own
ValidatorOff ==
    /\ v_pc = "off"
    /\ v_statement = NoText
    /\ v_reply = NoReply
    /\ v_calls = 0
    /\ v_result = JNull

\* check_balance_sheet is not being called
BalanceOff ==
    /\ b_pc = "off"
    /\ b_sheet = NoSheet
    /\ b_result = NoOutcome
    /\ b_given = NoSheet
    /\ b_second = NoOutcome
    /\ b_errors = <<>>

\* run_monte_carlo is not being called
EngineOff ==
    /\ e_pc = "off"
    /\ e_report = NoReport
    /\ e_params = DefaultParams
    /\ e_num = 0
    /\ e_first = NoOutcome
    /\ e_second = NoOutcome

\* no scenario task is running
TaskOff ==
    /\ t_pc = "off"
    /\ t_found = FALSE
    /\ scenario = NewScenario(<<>>)
    /\ t_report_data = NoReport
    /\ t_params = <<>>
    /\ t_keys = [gemini |-> FALSE, deepseek |-> FALSE]
    /\ t_engine = NoOutcome
    /\ t_simulation = None
    /\ t_critic = None
    /\ t_reply = NoReply

\* no debate is run through AgentsService
AgentsOff ==
    /\ api_keys = <<>>
    /\ environ = <<>>
    /\ genai_key = None
    /\ runs = <<>>

Init ==
    /\ max_rounds \in 0..MaxRounds
    /\ convergence_threshold \in 1..MaxThreshold
    /\ pc = "opening"
    /\ DebateStart
    /\ ValidatorOff
    /\ BalanceOff
    /\ EngineOff
    /\ TaskOff
    /\ AgentsOff

\* the feedback a rejection carries, and the absence of one
Feedback(validation) ==
    [issues |-> validation.o.issues, feedback |-> validation.o.feedback]
NoFeedback == [issues |-> JNull, feedback |-> JNull]

\* a prompt that keeps the feedback of the latest rejection only
Extended_LatestOnly(p, validation) == <<Feedback(validation)>>

\* prompt += "[SYSTEM FEEDBACK]: ... Issues: {issues}. Feedback: {feedback} ..."
Extended(p, validation) == Append(p, Feedback(validation))

\* One pass of the retry loop of an Optimist turn, and, when the loop
\* returns, the append of the turn by run_debate.
OptimistPass(gen, vreply, topic, nextpc, source) ==
    LET t == IF gen.ok THEN NewText("Gemini", round_num, attempt, gen.phrases)
             ELSE NoText
        validation == validate_statement(t, vreply)
        kind == AttemptKind(gen, validation)
        log == IF attempt = 0 THEN <<>> ELSE attemptLog
    IN /\ kind # "valid" => faults < MaxFaults
       /\ faults' = IF kind = "valid" THEN faults ELSE faults + 1
       /\ calls' = [calls EXCEPT
                      !.optimist = @ + 1,
                      !.validator_turn =
                          (IF attempt = 0 THEN 0 ELSE @)
                          + (IF gen.ok /\ validator_calls_model(t) THEN 1 ELSE 0)]
       /\ validated' = IF gen.ok THEN validated \cup {t.by} ELSE validated
       /\ attemptLog' =
             Append(log, [text |-> t, kind |-> kind, prompt |-> prompt,
                          feedback |-> IF kind = "rejected"
                                       THEN Feedback(validation)
                                       ELSE NoFeedback])
       /\ promptFrom' = [role |-> "Optimist", round |-> round_num, text |-> source]
       /\ IF LoopRaises(kind, attempt)
          THEN /\ pc' = "raised"
               /\ text' = IF gen.ok THEN t ELSE text
               /\ UNCHANGED <<debate_log, attempt, prompt, optimist_response>>
          ELSE IF LoopReturns(kind, attempt)
          THEN /\ debate_log' = Append(debate_log,
                                       Turn(round_num, "Gemini", "Optimist", t, topic))
               /\ optimist_response' = t
               /\ pc' = nextpc
               /\ attempt' = 0
               /\ text' = NoText
               /\ prompt' = <<>>
          ELSE /\ attempt' = attempt + 1
               /\ text' = IF gen.ok THEN t ELSE text
               /\ prompt' = IF kind = "rejected"
                            THEN Extended(prompt, validation)
                            ELSE prompt
               /\ UNCHANGED <<pc, debate_log, optimist_response>>

\* _get_validated_optimist_position and the append of the opening turn
Opening ==
    /\ UNCHANGED nonDebateVars
    /\ pc = "opening"
    /\ \E gen \in GenOutcomes, vreply \in ValidatorReplies :
          OptimistPass(gen, vreply, "Opening Position", "challenge", NoText)
    /\ UNCHANGED <<max_rounds, convergence_threshold, round_num,
                   convergence_counter, converged, convergence_round,
                   deepseek_challenge, result, qualHistory, lastCheck, synthReply>>

\* _get_deepseek_challenge, the append of the challenge, and the loop entry
Challenge ==
    /\ UNCHANGED nonDebateVars
    /\ pc = "challenge"
    /\ promptFrom' = [role |-> "Skeptic", round |-> 1, text |-> optimist_response]
    /\ calls' = [calls EXCEPT !.skeptic = @ + 1]
    /\ \E gen \in {Raise, [ok |-> TRUE, phrases |-> {}]} :
          IF ~gen.ok
          THEN /\ pc' = "raised"
               /\ UNCHANGED <<debate_log, deepseek_challenge, round_num>>
          ELSE LET t == NewText("DeepSeek", 1, 0, gen.phrases)
               IN /\ debate_log' = Append(debate_log,
                        Turn(1, "DeepSeek", "Skeptic", t, "Initial Challenge"))
                  /\ deepseek_challenge' = t
                  /\ IF InRange(2, max_rounds)
                     THEN pc' = "respond" /\ round_num' = 2
                     ELSE pc' = "synthesize" /\ round_num' = round_num
    /\ UNCHANGED <<max_rounds, convergence_threshold,
                   convergence_counter, converged, convergence_round,
                   attempt, text, prompt, result, attemptLog, validated,
                   qualHistory, lastCheck, synthReply, faults,
                   optimist_response>>

\* _get_validated_optimist_response and the append of the response turn
Respond ==
    /\ UNCHANGED nonDebateVars
    /\ pc = "respond"
    /\ \E gen \in GenOutcomes, vreply \in ValidatorReplies :
          OptimistPass(gen, vreply, "Response", "check", deepseek_challenge)
    /\ UNCHANGED <<max_rounds, convergence_threshold, round_num,
                   convergence_counter, converged, convergence_round,
                   deepseek_challenge, result, qualHistory, lastCheck, synthReply>>

\* mutant: the next response is built from the challenge of round 1
NextChallenge_Stale(challenge, deepseek_counter) == challenge

\* "Update for next iteration": the counter becomes the challenge that the
\* next response prompt embeds
NextChallenge(challenge, deepseek_counter) == deepseek_counter

\* what run_debate does with the value of _check_convergence
AfterCheck(chk, reply) ==
    LET c == CounterAfter(convergence_counter, chk.value)
    IN /\ convergence_counter' = c
       /\ calls' = [calls EXCEPT !.classifier = IF chk.called THEN @ + 1 ELSE @]
       /\ qualHistory' = Append(qualHistory, chk.value)
       /\ lastCheck' = [len |-> Len(debate_log), called |-> chk.called,
                        reply |-> reply, value |-> chk.value]
       /\ IF Declares(chk.value, c, convergence_threshold)
          THEN /\ converged' = TRUE
               /\ convergence_round' = round_num
               /\ pc' = "synthesize"
          ELSE /\ pc' = "counter"
               /\ UNCHANGED <<converged, convergence_round>>

\* _check_convergence and the counter update
CheckConvergence ==
    /\ UNCHANGED nonDebateVars
    /\ pc = "check"
    /\ \/ /\ ~check_convergence(debate_log, Raise).called
          /\ AfterCheck(check_convergence(debate_log, Raise), Raise)
       \/ /\ check_convergence(debate_log, Raise).called
          /\ \E reply \in ConvergenceReplies :
                AfterCheck(check_convergence(debate_log, reply), reply)
    /\ UNCHANGED <<max_rounds, convergence_threshold, round_num, debate_log,
                   deepseek_challenge, attempt, text, prompt, result,
                   attemptLog, validated, synthReply, faults,
                   optimist_response, promptFrom>>

\* mutant: the Skeptic's counter-argument is handed to the validator
Counter_Validated ==
    /\ UNCHANGED nonDebateVars
    /\ pc = "counter"
    /\ promptFrom' = [role |-> "Skeptic", round |-> round_num,
                      text |-> optimist_response]
    /\ calls' = [calls EXCEPT !.skeptic = @ + 1]
    /\ \E gen \in {Raise, [ok |-> TRUE, phrases |-> {}]} :
          IF ~gen.ok
          THEN /\ pc' = "raised"
               /\ UNCHANGED <<debate_log, deepseek_challenge, round_num, validated>>
          ELSE LET t == NewText("DeepSeek", round_num, 0, gen.phrases)
               IN /\ debate_log' = Append(debate_log,
                        Turn(round_num, "DeepSeek", "Skeptic", t, "Counter"))
                  /\ deepseek_challenge' = NextChallenge(deepseek_challenge, t)
                  /\ validated' = validated \cup {t.by}
                  /\ IF InRange(round_num + 1, max_rounds)
                     THEN pc' = "respond" /\ round_num' = round_num + 1
                     ELSE pc' = "synthesize" /\ round_num' = round_num
    /\ UNCHANGED <<max_rounds, convergence_threshold,
                   convergence_counter, converged, convergence_round,
                   attempt, text, prompt, result, attemptLog,
                   qualHistory, lastCheck, synthReply, faults,
                   optimist_response>>

\* _get_deepseek_counter, the append of the counter, and the loop step
Counter ==
    /\ UNCHANGED nonDebateVars
    /\ pc = "counter"
    /\ promptFrom' = [role |-> "Skeptic", round |-> round_num,
                      text |-> optimist_response]
    /\ calls' = [calls EXCEPT !.skeptic = @ + 1]
    /\ \E gen \in {Raise, [ok |-> TRUE, phrases |-> {}]} :
          IF ~gen.ok
          THEN /\ pc' = "raised"
               /\ UNCHANGED <<debate_log, deepseek_challenge, round_num>>
          ELSE LET t == NewText("DeepSeek", round_num, 0, gen.phrases)
               IN /\ debate_log' = Append(debate_log,
                        Turn(round_num, "DeepSeek", "Skeptic", t, "Counter"))
                  /\ deepseek_challenge' = NextChallenge(deepseek_challenge, t)
                  /\ IF InRange(round_num + 1, max_rounds)
                     THEN pc' = "respond" /\ round_num' = round_num + 1
                     ELSE pc' = "synthesize" /\ round_num' = round_num
    /\ UNCHANGED <<max_rounds, convergence_threshold,
                   convergence_counter, converged, convergence_round,
                   attempt, text, prompt, result, attemptLog, validated,
                   qualHistory, lastCheck, synthReply, faults,
                   optimist_response>>

\* _synthesize_consensus and the construction of the DebateResult
Synthesize ==
    /\ UNCHANGED nonDebateVars
    /\ pc = "synthesize"
    /\ \E reply \in SynthesisReplies :
          LET consensus == synthesize_consensus(reply)
          IN /\ synthReply' = reply
             /\ calls' = [calls EXCEPT !.synthesis = @ + 1]
             /\ IF DebateResultAccepts(consensus)
                THEN /\ pc' = "done"
                     /\ result' =
                          [debate_log |-> debate_log,
                           total_rounds |-> total_rounds(debate_log),
                           converged |-> converged,
                           convergence_round |-> convergence_round,
                           consensus_summary |-> consensus.summary.s,
                           key_agreements |-> consensus.agreements.l,
                           key_disagreements |-> consensus.disagreements.l,
                           final_verdict |-> consensus.verdict.s,
                           confidence_level |-> consensus.confidence.s]
                ELSE /\ pc' = "raised"
                     /\ UNCHANGED result
    /\ UNCHANGED <<max_rounds, convergence_threshold, round_num, debate_log,
                   convergence_counter, converged, convergence_round,
                   deepseek_challenge, attempt, text, prompt,
                   attemptLog, validated, qualHistory, lastCheck, faults,
                   optimist_response, promptFrom>>

Next ==
    \/ Opening
    \/ Challenge
    \/ Respond
    \/ CheckConvergence
    \/ Counter
    \/ Synthesize

Spec == Init /\ [][Next]_vars

----------------------------------------------------------------------------
(* validate_statement called on its own *)

\* phrases a statement may contain
StatementPhrases ==
    { "new product launch", "New Product Launch", "PRE-ORDER",
      "market research", "revenue grew 5%", "EBITDA margin" }

Statements == { NewText("Gemini", 1, 0, ph) : ph \in SUBSET StatementPhrases }

\* outcomes of the validator's external call, with texts that need the
\* fence stripping and texts that json.loads rejects
ValidatorRepliesAll ==
    ValidatorReplies \cup
    { Reply(<<Prose, Json(FailOpen)>>),
      Reply(<<FenceJson, Prose, Fence>>),
      Reply(<<Fence, Json(JObj([is_valid |-> JBool(FALSE),
                                issues |-> JList(<<"margin claim">>),
                                feedback |-> JStr("cite OpEx")])), Fence, Prose>>),
      Reply(<<Prose, FenceJson, Json(FailOpen), Fence, Prose>>),
      Reply(<<Json(JStr("valid"))>>) }

ValidatorInit ==
    /\ v_pc = "called"
    /\ v_statement \in Statements
    /\ v_reply = NoReply
    /\ v_calls = 0
    /\ v_result = JNull
    /\ DebateOff
    /\ BalanceOff
    /\ EngineOff
    /\ TaskOff
    /\ AgentsOff

\* the keyword check of validate_statement, and its return when a term is found
LexicalScan ==
    /\ v_pc = "called"
    /\ IF ~validator_calls_model(v_statement)
       THEN /\ v_result' = validate_statement(v_statement, NoReply)
            /\ v_pc' = "returned"
       ELSE /\ v_pc' = "scanned"
            /\ UNCHANGED v_result
    /\ UNCHANGED <<v_statement, v_reply, v_calls>>
    /\ UNCHANGED nonValidatorVars

\* the try block of validate_statement: the external call, the parse, the
\* return of the parsed value or of the fallback
ExternalCall ==
    /\ v_pc = "scanned"
    /\ \E reply \in ValidatorRepliesAll :
          /\ v_reply' = reply
          /\ v_result' = validate_statement(v_statement, reply)
    /\ v_calls' = v_calls + 1
    /\ v_pc' = "returned"
    /\ UNCHANGED v_statement
    /\ UNCHANGED nonValidatorVars

ValidatorNext ==
    \/ LexicalScan
    \/ ExternalCall

ValidatorSpec == ValidatorInit /\ [][ValidatorNext]_vars

----------------------------------------------------------------------------
(* check_balance_sheet *)

\* amounts are held in cents
OneDollar == 100

\* the outcome of evaluating an expression: its value, or a KeyError
Value(x) == [ok |-> TRUE, v |-> x]
KeyError == [ok |-> FALSE, v |-> 0]

\* sum(v for k, v in mapping.items() if k != total_key), over the keys given
RECURSIVE SumItems(_, _)
SumItems(mapping, keys) ==
    IF keys = {} THEN 0
    ELSE LET k == CHOOSE x \in keys : TRUE
         IN mapping[k] + SumItems(mapping, keys \ {k})

\* mutant: mapping[key]
dict_get_Subscript(mapping, key, default) ==
    IF key \in DOMAIN mapping THEN Value(mapping[key]) ELSE KeyError

\* mapping.get(key, default)
dict_get(mapping, key, default) ==
    IF key \in DOMAIN mapping THEN Value(mapping[key]) ELSE Value(default)

\* bs.X.get("TotalX", sum(v for k, v in bs.X.items() if k != "TotalX"))
TotalOf(mapping, total_key) ==
    dict_get(mapping, total_key, SumItems(mapping, DOMAIN mapping \ {total_key}))

\* abs(x)
Abs(x) == IF x < 0 THEN -x ELSE x

\* mutant: a difference of exactly one dollar still counts as balanced
Balanced_Inclusive(diff) == Abs(diff) <= OneDollar

\* abs(diff) < 1.0
Balanced(diff) == Abs(diff) < OneDollar

\* the outcome of check_balance_sheet(report)
check_balance_sheet(bs) ==
    LET total_assets == TotalOf(bs.Assets, "TotalAssets")
        total_liabs == TotalOf(bs.Liabilities, "TotalLiabilities")
        total_equity == TotalOf(bs.Equity, "TotalEquity")
    IN IF ~(total_assets.ok /\ total_liabs.ok /\ total_equity.ok)
       THEN [ok |-> FALSE, made |-> TRUE]
       ELSE LET diff == total_assets.v - (total_liabs.v + total_equity.v)
            IN [ok |-> TRUE,
                value |-> [is_balanced |-> Balanced(diff),
                           difference |-> diff,
                           total_assets |-> total_assets.v,
                           total_liabs_equity |-> total_liabs.v + total_equity.v]]

\* the mappings with keys among the total key and the items, and the given amounts
MappingsOf(total_key, items, amounts) ==
    UNION { [D -> amounts] : D \in SUBSET ({total_key} \cup items) }

AssetMappings == MappingsOf("TotalAssets", {"Cash", "Inventory"}, {0, 30000, 100000})
LiabilityMappings == MappingsOf("TotalLiabilities", {"Debt"}, {70000, 70001})
EquityMappings == MappingsOf("TotalEquity", {"RetainedEarnings"}, {25000, 29500, 29900, 29999})

\* mutant: the totals are taken out of the mappings with pop
SheetAfter_Pop(bs) ==
    [Assets |-> [k \in DOMAIN bs.Assets \ {"TotalAssets"} |-> bs.Assets[k]],
     Liabilities |-> [k \in DOMAIN bs.Liabilities \ {"TotalLiabilities"} |->
                         bs.Liabilities[k]],
     Equity |-> [k \in DOMAIN bs.Equity \ {"TotalEquity"} |-> bs.Equity[k]]]

\* the sheet after check_balance_sheet(bs): the function reads the three
\* mappings with get and items and assigns to none of them
SheetAfter(bs) == bs

\* x * 0.01
OnePercent(x) == x \div 100

\* mutant: the tolerance is the smaller of the two
Max_Smaller(a, b) == IF a < b THEN a ELSE b

\* max(a, b)
Max(a, b) == IF a > b THEN a ELSE b

\* FinancialValidator.validate_balance_sheet: the list of errors
validate_balance_sheet(bs) ==
    LET total_assets == dict_get(bs.Assets, "TotalAssets", 0).v
        total_liabs == dict_get(bs.Liabilities, "TotalLiabilities", 0).v
        total_equity == dict_get(bs.Equity, "TotalEquity", 0).v
        diff == total_assets - (total_liabs + total_equity)
        tolerance == Max(OnePercent(total_assets), OneDollar)
    IN (IF Abs(diff) > tolerance
        THEN <<[severity |-> "ERROR", field |-> "BalanceSheet", value |-> diff]>>
        ELSE <<>>)
       \o (IF total_equity < 0
           THEN <<[severity |-> "WARNING", field |-> "Equity",
                   value |-> total_equity]>>
           ELSE <<>>)

BalanceInit ==
    /\ b_pc = "called"
    /\ b_sheet \in [Assets : AssetMappings, Liabilities : LiabilityMappings,
                    Equity : EquityMappings]
    /\ b_given = b_sheet
    /\ b_second = NoOutcome
    /\ b_errors = <<>>
    /\ b_result = NoOutcome
    /\ DebateOff
    /\ ValidatorOff
    /\ EngineOff
    /\ TaskOff
    /\ AgentsOff

CheckBalanceSheet ==
    /\ b_pc = "called"
    /\ b_result' = check_balance_sheet(b_sheet)
    /\ b_pc' = IF b_result'.ok THEN "returned" ELSE "raised"
    /\ b_sheet' = SheetAfter(b_sheet)
    /\ UNCHANGED <<b_given, b_second, b_errors>>
    /\ UNCHANGED nonBalanceVars

\* a second call of check_balance_sheet on the same sheet object
CheckAgain ==
    /\ b_pc = "returned"
    /\ b_second' = check_balance_sheet(b_sheet)
    /\ b_pc' = IF b_second'.ok THEN "again" ELSE "raised"
    /\ b_sheet' = SheetAfter(b_sheet)
    /\ UNCHANGED <<b_given, b_result, b_errors>>
    /\ UNCHANGED nonBalanceVars

\* FinancialValidator.validate_balance_sheet on the same sheet
ValidateBalanceSheet ==
    /\ b_pc = "again"
    /\ b_errors' = validate_balance_sheet(b_sheet)
    /\ b_pc' = "validated"
    /\ UNCHANGED <<b_sheet, b_given, b_result, b_second>>
    /\ UNCHANGED nonBalanceVars

BalanceNext ==
    \/ CheckBalanceSheet
    \/ CheckAgain
    \/ ValidateBalanceSheet

BalanceSpec == BalanceInit /\ [][BalanceNext]_vars

----------------------------------------------------------------------------
(* run_monte_carlo *)

\* Amounts are whole currency units and rates are basis points; products and
\* quotients round down where the program computes in doubles.
Bps == 10000

\* floor(x * a / b) for b > 0, computed without a product beyond 32 bits
MulDiv(x, a, b) == (x \div b) * a + ((x % b) * a) \div b

\* x * rate
Scale(x, rate) == MulDiv(x, rate, Bps)

\* num / den
Ratio(num, den) == (num * Bps) \div den

\* A discount rate as the program holds it: the decimal rate in basis points
\* and the sign of the residue that the double addition left on it.
Double(bps, residue) == [bps |-> bps, residue |-> residue]

\* the sign of (0.08 + d / 10000.0) - (800 + d) / 10000 in IEEE-754 doubles:
\* 0.08 + -0.06 = 0.020000000000000004, 0.08 + -0.07 = 0.009999999999999995,
\* and the sum is the nearest double of the decimal for the other deltas fed
ResidueOfSum(d) ==
    CASE d = -600 -> 1
      [] d = -700 -> -1
      [] d \in {-601, -599, 0, 100} -> 0

\* x <= y on doubles
LessOrEqual(x, y) ==
    \/ x.bps < y.bps
    \/ x.bps = y.bps /\ x.residue <= y.residue

\* discount_rate_base = 0.08
discount_rate_base == 800
\* g = 0.02
terminal_growth == Double(200, 0)
\* g + 0.01, which is the double 0.03
floor_rate == Double(300, 0)
\* forecast_years = 5
forecast_years == 5
\* kpis.get("TaxRate", 0.25)
default_tax_rate == 2500
\* kpis.get("RevenueGrowth", 0.03)
default_growth == 300
\* rng.normal(_, 0.02, _) and rng.normal(_, 0.01, _)
rev_growth_sd == 200
opex_delta_sd == 100
\* results[:100]
RetainedRuns == 100
\* np.random.default_rng(42)
SeedValue == 42

\* r = discount_rate_base + discount_rate_delta; if r <= g: r = g + 0.01
discount_rate(delta) ==
    LET r == Double(discount_rate_base + delta, ResidueOfSum(delta))
    IN IF LessOrEqual(r, terminal_growth) THEN floor_rate ELSE r

\* A quotient by a gap of one rounding residue (about 3.5e-18) is beyond every
\* amount of the model; it is held as the amount times Huge.
Huge == 1000000

\* x / (r - g), for r above g
OverGap(x, r, g) ==
    IF r.bps > g.bps THEN MulDiv(x, Bps, r.bps - g.bps) ELSE x * Huge

\* x / ((1 + r) ** t)
RECURSIVE Discounted(_, _, _)
Discounted(x, r, t) ==
    IF t = 0 THEN x ELSE Discounted(MulDiv(x, Bps, Bps + r.bps), r, t - 1)

\* calculate_fcf
calculate_fcf(ebit, tax_rate, dep_amort, change_working_capital, capex) ==
    LET nopat == Scale(ebit, Bps - tax_rate)
    IN nopat + dep_amort + change_working_capital + capex

\* calculate_npv, over the years from t on
RECURSIVE calculate_npv(_, _, _)
calculate_npv(fcf_stream, r, t) ==
    IF t > Len(fcf_stream) THEN 0
    ELSE Discounted(fcf_stream[t], r, t) + calculate_npv(fcf_stream, r, t + 1)

\* the time propagation loop, from year t on; c holds the values that do not
\* change over the years
RECURSIVE Propagate(_, _, _, _)
Propagate(c, curr_rev, curr_opex, t) ==
    IF t > forecast_years THEN <<>>
    ELSE LET total_rev_growth == c.organic_growth + c.sim_rev_growth
             rev == Scale(curr_rev, Bps + total_rev_growth)
             opex_growth == total_rev_growth + c.sim_opex_shift
             opex == Scale(curr_opex, Bps + opex_growth)
             cogs == Scale(rev, Bps - c.gross_margin)
             ebitda == rev - cogs - opex
             da == Scale(rev, c.da_margin)
             ebit == ebitda - da
             taxes == IF ebit > 0 THEN Scale(ebit, c.tax_rate) ELSE 0
             net_income == ebit - c.interest - taxes
             capex == Scale(rev, c.capex_margin)
             wc == Scale(rev, c.wc_margin)
             fcf == calculate_fcf(ebit, c.tax_rate, da, wc, capex)
         IN <<[revenue |-> rev, ebitda |-> ebitda,
               net_income |-> net_income, fcf |-> fcf]>>
            \o Propagate(c, rev, opex, t + 1)

\* one stream of the forecast
Stream(years, field) == [t \in 1..Len(years) |-> years[t][field]]

\* the margin of an item over base revenue, 0 when revenue is not positive
Margin(item, revenue) == IF revenue > 0 THEN Ratio(item, revenue) ELSE 0

\* a label that goes to "Revenue" on a tie of the magnitudes
key_driver_TieToRevenue(sim_rev_growth, sim_opex_shift) ==
    IF Abs(sim_rev_growth) >= Abs(sim_opex_shift) THEN "Revenue" ELSE "OpEx"

\* key_driver
key_driver(sim_rev_growth, sim_opex_shift) ==
    IF Abs(sim_rev_growth) > Abs(sim_opex_shift) THEN "Revenue" ELSE "OpEx"

\* the body of the loop over the trials: the SimulationResult of trial i
Trial(report, params, base_tax_rate, sim_rev_growth, sim_opex_shift, i, r) ==
    LET c == [organic_growth |->
                  dict_get(report.kpis, "RevenueGrowth", default_growth).v,
              sim_rev_growth |-> sim_rev_growth,
              sim_opex_shift |-> sim_opex_shift,
              gross_margin |-> Margin(report.GrossProfit, report.Revenue),
              da_margin |-> Margin(report.DepreciationAndAmortization,
                                   report.Revenue),
              tax_rate |-> base_tax_rate + params.tax_rate_delta_bps,
              interest |-> report.InterestExpense,
              capex_margin |-> Margin(report.CapEx, report.Revenue),
              wc_margin |-> Margin(report.ChangeInWorkingCapital, report.Revenue)]
        years == Propagate(c, report.Revenue, report.OpEx, 1)
        fcf_stream == Stream(years, "fcf")
        terminal_fcf == Scale(fcf_stream[forecast_years],
                              Bps + terminal_growth.bps)
        terminal_value == OverGap(terminal_fcf, r, terminal_growth)
        npv == calculate_npv(fcf_stream, r, 1)
               + Discounted(terminal_value, r, forecast_years)
    IN [scenario_id |-> i,
        revenue |-> years[1].revenue,
        ebitda |-> years[1].ebitda,
        net_income |-> years[1].net_income,
        fcf |-> years[1].fcf,
        npv |-> npv,
        key_driver |-> key_driver(sim_rev_growth, sim_opex_shift),
        revenue_forecast |-> Stream(years, "revenue"),
        ebitda_forecast |-> Stream(years, "ebitda"),
        net_income_forecast |-> Stream(years, "net_income"),
        fcf_forecast |-> fcf_stream]

\* the place of values[i] in ascending order; equal values keep their order
Rank(values, i) ==
    1 + Cardinality({ j \in 1..Len(values) :
                        \/ values[j] < values[i]
                        \/ values[j] = values[i] /\ j < i })

\* the k-th smallest of the values
Kth(values, k) == values[CHOOSE i \in 1..Len(values) : Rank(values, i) = k]

\* np.percentile(values, p), linear interpolation between the closest ranks
percentile(values, p) ==
    LET pos == (Len(values) - 1) * p
        lo == pos \div 100
        fr == pos % 100
    IN IF fr = 0 THEN Kth(values, lo + 1)
       ELSE LET below == Kth(values, lo + 1)
            IN below + MulDiv(Kth(values, lo + 2) - below, fr, 100)

\* np.median(values)
median(values) ==
    LET n == Len(values)
    IN IF n % 2 = 1 THEN Kth(values, (n + 1) \div 2)
       ELSE (Kth(values, n \div 2) + Kth(values, (n \div 2) + 1)) \div 2

\* np.median(matrix, axis=0)
median_forecast(results, field) ==
    [t \in 1..forecast_years |->
        median([i \in 1..Len(results) |-> results[i][field][t]])]

\* the generator: its next state, and the standard deviate read off a state
NextState(x) == (x * 75 + 74) % 65537
Deviate(x) == (x % 5) - 2

\* rng.normal(mean, sd, n): the n samples, and the generator's state after them
RECURSIVE normal(_, _, _, _)
normal(state, mean, sd, n) ==
    IF n = 0 THEN [samples |-> <<>>, state |-> state]
    ELSE IF n = 1
    THEN LET x == NextState(state)
         IN [samples |-> <<mean + sd * Deviate(x)>>, state |-> x]
    ELSE LET first == normal(state, mean, sd, n \div 2)
             rest == normal(first.state, mean, sd, n - (n \div 2))
         IN [samples |-> first.samples \o rest.samples, state |-> rest.state]

\* mutant: np.random.default_rng(), seeded from the entropy of the system
default_rng_Unseeded(entropy) == entropy

\* np.random.default_rng(42)
default_rng(entropy) == SeedValue

\* mutant: no check of the base revenue
InputError_Never(base_rev) == FALSE

\* if base_rev <= 0: raise ValueError
InputError(base_rev) == base_rev <= 0

ValueError == [ok |-> FALSE, made |-> TRUE, error |-> "ValueError", trials |-> 0]

\* results[-100:], the trials computed last
Retained_Last(results) ==
    SubSeq(results,
           IF Len(results) < RetainedRuns THEN 1
           ELSE Len(results) - RetainedRuns + 1,
           Len(results))

\* results[:100]
Retained(results) ==
    SubSeq(results, 1, IF Len(results) < RetainedRuns
                       THEN Len(results) ELSE RetainedRuns)

\* the "Aggregate" part of run_monte_carlo
Aggregate(results, params, num_simulations) ==
    LET npvs == [i \in 1..Len(results) |-> results[i].npv]
        revenues_y1 == [i \in 1..Len(results) |-> results[i].revenue]
        ebitdas_y1 == [i \in 1..Len(results) |-> results[i].ebitda]
        fcfs_y1 == [i \in 1..Len(results) |-> results[i].fcf]
    IN [median_npv |-> median(npvs),
        p10_npv |-> percentile(npvs, 10),
        p90_npv |-> percentile(npvs, 90),
        median_revenue |-> median(revenues_y1),
        median_ebitda |-> median(ebitdas_y1),
        median_fcf |-> median(fcfs_y1),
        revenue_forecast_p50 |-> median_forecast(results, "revenue_forecast"),
        ebitda_forecast_p50 |-> median_forecast(results, "ebitda_forecast"),
        fcf_forecast_p50 |-> median_forecast(results, "fcf_forecast"),
        assumption_log |->
            [revenue_growth_bps |-> params.revenue_growth_bps,
             opex_delta_bps |-> params.opex_delta_bps,
             discount_rate |-> discount_rate_base + params.discount_rate_bps,
             iterations |-> num_simulations],
        traceability |->
            [Revenue |-> "Base * (1+g)^t", OpEx |-> "Base * (1+g+delta)^t",
             EBITDA |-> "Rev - COGS - OpEx"],
        simulation_runs |-> Retained(results)]

\* the outcome of run_monte_carlo(base_report, params, num_simulations);
\* entropy is what an unseeded generator would start from.  The outcome
\* carries, next to the value, the rate r used in the valuation, the number
\* of trials computed, and the growth deltas and OpEx shifts sampled.
run_monte_carlo(base_report, params, num_simulations, entropy) ==
    LET base_rev == base_report.Revenue
        base_tax_rate == dict_get(base_report.kpis, "TaxRate", default_tax_rate).v
    IN IF InputError(base_rev) THEN ValueError
       ELSE LET rng == default_rng(entropy)
                rev_growth_dist == normal(rng, params.revenue_growth_bps,
                                          rev_growth_sd, num_simulations)
                opex_delta_dist == normal(rev_growth_dist.state,
                                          params.opex_delta_bps,
                                          opex_delta_sd, num_simulations)
                r == discount_rate(params.discount_rate_bps)
                results ==
                    [i \in 1..num_simulations |->
                        Trial(base_report, params, base_tax_rate,
                              rev_growth_dist.samples[i],
                              opex_delta_dist.samples[i], i - 1, r)]
            IN [ok |-> TRUE, made |-> TRUE, rate |-> r,
                trials |-> num_simulations,
                growth_deltas |-> rev_growth_dist.samples,
                opex_shifts |-> opex_delta_dist.samples,
                value |-> Aggregate(results, params, num_simulations)]

\* the reports and the params fed to the engine
KpiMappings ==
    { <<>>, [k \in {"TaxRate", "RevenueGrowth"} |->
                IF k = "TaxRate" THEN 2100 ELSE 500] }

Reports ==
    [Revenue : {-50, 0, 1000}, GrossProfit : {400}, OpEx : {200},
     DepreciationAndAmortization : {50}, InterestExpense : {10},
     CapEx : {0, 50}, ChangeInWorkingCapital : {-20, 0},
     kpis : KpiMappings]

DiscountDeltas == {-700, -601, -600, -599, 0, 100}

ParamsFed ==
    [opex_delta_bps : {-100, 0}, revenue_growth_bps : {0, 100},
     discount_rate_bps : DiscountDeltas, tax_rate_delta_bps : {0, 300}]

\* what an unseeded generator could start from
Entropy == {7, 42, 4711}

\* the calls that ask for as many trials as are retained, and for more
LongRuns ==
    [report : { r \in Reports : r.Revenue > 0 /\ r.CapEx = 50
                                 /\ r.ChangeInWorkingCapital = 0
                                 /\ r.kpis = <<>> },
     params : { p \in ParamsFed : p.discount_rate_bps = 0
                                  /\ p.tax_rate_delta_bps = 0
                                  /\ p.opex_delta_bps = 0 },
     num : {RetainedRuns, RetainedRuns + 1}]

EngineInit ==
    /\ e_pc = "start"
    /\ \/ /\ e_report \in Reports
          /\ e_params \in ParamsFed
          /\ e_num \in 1..MaxTrials
       \/ \E long \in LongRuns :
             /\ e_report = long.report
             /\ e_params = long.params
             /\ e_num = long.num
    /\ e_first = NoOutcome
    /\ e_second = NoOutcome
    /\ DebateOff
    /\ ValidatorOff
    /\ BalanceOff
    /\ TaskOff
    /\ AgentsOff

\* the caller's first call of run_monte_carlo
FirstCall ==
    /\ e_pc = "start"
    /\ \E entropy \in Entropy :
          e_first' = run_monte_carlo(e_report, e_params, e_num, entropy)
    /\ e_pc' = "once"
    /\ UNCHANGED <<e_report, e_params, e_num, e_second>>
    /\ UNCHANGED nonEngineVars

\* the caller's second call, with the same arguments
SecondCall ==
    /\ e_pc = "once"
    /\ \E entropy \in Entropy :
          e_second' = run_monte_carlo(e_report, e_params, e_num, entropy)
    /\ e_pc' = "twice"
    /\ UNCHANGED <<e_report, e_params, e_num, e_first>>
    /\ UNCHANGED nonEngineVars

EngineNext ==
    \/ FirstCall
    \/ SecondCall

EngineSpec == EngineInit /\ [][EngineNext]_vars

----------------------------------------------------------------------------
(* execute_scenario_task *)

\* num_simulations: int = 10000, cut down to the largest number of trials of
\* the model
default_num_simulations == MaxTrials

\* FinancialReport(**report_data): the report, or a validation error
FinancialReport(report_data) ==
    IF DOMAIN NoReport \subseteq DOMAIN report_data
    THEN [ok |-> TRUE, v |-> report_data]
    ELSE [ok |-> FALSE, v |-> NoReport]

\* ScenarioParams(**params): the fields present in the dict, the defaults
\* for the others; keys that are no fields are ignored
ScenarioParams(params) ==
    [f \in DOMAIN DefaultParams |->
        IF f \in DOMAIN params THEN params[f] ELSE DefaultParams[f]]

\* the fence stripping of SimulatorAgent.run_simulation
simulator_strip(txt) ==
    IF Contains(txt, FenceJson)
    THEN Split(Split(txt, FenceJson)[2], Fence)[1]
    ELSE IF Contains(txt, Fence)
         THEN Split(Split(txt, Fence)[2], Fence)[1]
         ELSE txt

\* an enrichment that clears the engine's narrative when the call fails
Enriched_Cleared(agg_results, reply) ==
    IF ~reply.ok
    THEN [agg_results EXCEPT !.assumption_log = <<>>, !.traceability = <<>>]
    ELSE LET llm_data == json_loads(simulator_strip(reply.text))
         IN IF llm_data = ParseError \/ llm_data.t # "obj"
            THEN [agg_results EXCEPT !.assumption_log = <<>>,
                                     !.traceability = <<>>]
            ELSE [agg_results EXCEPT
                    !.assumption_log =
                        Get(llm_data, "assumption_log", agg_results.assumption_log),
                    !.traceability =
                        Get(llm_data, "traceability", agg_results.traceability)]

\* the try block of SimulatorAgent.run_simulation: the aggregate with the
\* log and traceability of the reply, or unchanged when anything raised
Enriched(agg_results, reply) ==
    IF ~reply.ok THEN agg_results
    ELSE LET llm_data == json_loads(simulator_strip(reply.text))
         IN IF llm_data = ParseError \/ llm_data.t # "obj" THEN agg_results
            ELSE [agg_results EXCEPT
                    !.assumption_log =
                        Get(llm_data, "assumption_log", agg_results.assumption_log),
                    !.traceability =
                        Get(llm_data, "traceability", agg_results.traceability)]

\* SimulatorAgent.run_simulation
simulator_run_simulation(report, params, entropy, reply) ==
    LET math == run_monte_carlo(report, params, default_num_simulations, entropy)
    IN IF ~math.ok THEN math
       ELSE [math EXCEPT !.value = Enriched(math.value, reply)]

\* SimulationService.run_simulation; first is the outcome of its own call of
\* run_monte_carlo
run_simulation(first, report, params, gemini_key, entropy, reply) ==
    IF ~first.ok THEN first
    ELSE IF ~gemini_key THEN ValueError
    ELSE simulator_run_simulation(report, params, entropy, reply)

\* an except branch that records the error and leaves the status alone
Failed_Swallowed(row) ==
    [row EXCEPT !.error_message = Some("str(e)"), !.progress = 0]

\* the except branch of execute_scenario_task
Failed(row) ==
    [row EXCEPT !.status = "FAILED", !.error_message = Some("str(e)"),
                !.progress = 0]

\* a report_data that FinancialReport rejects
MalformedReport == [Revenue |-> 1000]

\* balance sheets of the reports fed: one that balances, one that is short of
\* equity by 50 dollars, one that states no totals and is over by a cent
TaskSheets ==
    { [Assets |-> [TotalAssets |-> 100000],
       Liabilities |-> [TotalLiabilities |-> 70000],
       Equity |-> [TotalEquity |-> 30000]],
      [Assets |-> [TotalAssets |-> 100000],
       Liabilities |-> [TotalLiabilities |-> 70000],
       Equity |-> [TotalEquity |-> 25000]],
      [Assets |-> [Cash |-> 100000],
       Liabilities |-> [Debt |-> 70001],
       Equity |-> [RetainedEarnings |-> 30000]] }

\* the report with its balance sheet
WithSheet(r, bs) ==
    [f \in DOMAIN r \cup {"balance_sheet"} |->
        IF f = "balance_sheet" THEN bs ELSE r[f]]

TaskReports ==
    { WithSheet(r, bs) :
        r \in { x \in Reports : x.CapEx = 50 /\ x.ChangeInWorkingCapital = 0
                                /\ x.kpis = <<>> },
        bs \in TaskSheets }
    \cup {MalformedReport}

\* the dict create_scenario builds from the request
ParamsDict(revenue, opex, discount, tax) ==
    [k \in {"revenue_growth_delta_bps", "opex_delta_bps",
            "discount_rate_delta_bps", "tax_rate_delta_bps"} |->
        CASE k = "revenue_growth_delta_bps" -> revenue
          [] k = "opex_delta_bps" -> opex
          [] k = "discount_rate_delta_bps" -> discount
          [] k = "tax_rate_delta_bps" -> tax]

TaskParams ==
    { ParamsDict(rev, opex, disc, 0) :
        rev \in {0, 100}, opex \in {-100, 0}, disc \in {-600, 0} }

\* outcomes of the enrichment call of the simulator
SimulatorReplies ==
    { Raise,
      Reply(<<Prose>>),
      Reply(<<FenceJson,
              Json(JObj([assumption_log |-> JList(<<"OpEx held flat">>),
                         traceability |-> JObj([Revenue |-> JStr("10-K")])])),
              Fence>>),
      Reply(<<Json(JList(<<>>))>>) }

\* outcomes of the external call of CriticAgent.critique
CriticReplies ==
    { Raise,
      Reply(<<Prose>>),
      Reply(<<Json(JList(<<>>))>>),
      Reply(<<Json(JObj([verdict |-> JStr("revise"),
                         correction_instructions |-> JStr("cite the OpEx")]))>>),
      Reply(<<Json(JObj([comparative_analysis |-> JList(<<"margins">>)]))>>) }

\* the except branch of CriticAgent.critique: the rule-based verdict, or the
\* ZeroDivisionError of the margin
rule_based(report, simulation, bs_check) ==
    IF simulation.median_ebitda > 0 /\ report.Revenue > 0
       /\ simulation.median_revenue = 0
    THEN [ok |-> FALSE, made |-> TRUE, error |-> "ZeroDivisionError"]
    ELSE LET margin ==
                 IF simulation.median_ebitda > 0 /\ report.Revenue > 0
                 THEN IF 100 * simulation.median_ebitda
                            > 40 * simulation.median_revenue
                      THEN <<"very strong">>
                      ELSE IF 100 * simulation.median_ebitda
                                 < 10 * simulation.median_revenue
                           THEN <<"concerning">>
                           ELSE <<"appears reasonable">>
                 ELSE <<>>
             npv == IF simulation.median_npv < 0
                    THEN <<"Negative NPV">> ELSE <<>>
         IN [ok |-> TRUE,
             verdict |->
                [verdict |-> JStr("approve"),
                 balance_sheet_check |-> bs_check,
                 cash_flow_check |-> <<>>,
                 comparative_analysis |->
                     JList(margin \o npv \o <<"DeepSeek API unavailable">>),
                 unsupported_assumptions |-> JList(<<>>),
                 correction_instructions |-> JNull]]

\* a critic that refuses a report whose balance sheet does not balance
critique_Strict(report, simulation, reply) ==
    LET bs_check == check_balance_sheet(report.balance_sheet)
    IN IF ~bs_check.ok \/ ~bs_check.value.is_balanced
       THEN [ok |-> FALSE, made |-> TRUE, error |-> "ValueError"]
       ELSE rule_based(report, simulation, bs_check.value)

\* CriticAgent.critique: the CriticVerdict, or what it raises
critique(report, simulation, reply) ==
    LET bs_check == check_balance_sheet(report.balance_sheet)
        llm_data == IF reply.ok THEN json_loads(reply.text) ELSE ParseError
    IN IF ~bs_check.ok THEN [ok |-> FALSE, made |-> TRUE, error |-> "KeyError"]
       ELSE IF llm_data = ParseError \/ llm_data.t # "obj"
       THEN rule_based(report, simulation, bs_check.value)
       ELSE [ok |-> TRUE,
             verdict |->
                [verdict |-> Get(llm_data, "verdict", JStr("approve")),
                 balance_sheet_check |-> bs_check.value,
                 cash_flow_check |-> [status |-> "checked"],
                 comparative_analysis |->
                     Get(llm_data, "comparative_analysis", JList(<<>>)),
                 unsupported_assumptions |->
                     Get(llm_data, "unsupported_assumptions", JList(<<>>)),
                 correction_instructions |->
                     Get(llm_data, "correction_instructions", JNull)]]

\* AgentsService.critique: _get_critic, then CriticAgent.critique
agents_critique(report, simulation, deepseek_key, reply) ==
    IF ~deepseek_key THEN ValueError
    ELSE critique(report, simulation, reply)

\* outcomes of DebateAgent.run_debate
DebateOutcomes ==
    { Raise,
      [ok |-> TRUE, final_verdict |-> "Hold"],
      [ok |-> TRUE, final_verdict |-> "Cautious Buy"] }

TaskInit ==
    /\ t_pc = "queued"
    /\ t_found \in BOOLEAN
    /\ t_report_data \in TaskReports
    /\ t_params \in TaskParams
    /\ scenario = NewScenario(t_params)
    /\ t_keys \in [gemini : BOOLEAN, deepseek : BOOLEAN]
    /\ t_engine = NoOutcome
    /\ t_simulation = None
    /\ t_critic = None
    /\ t_reply = NoReply
    /\ DebateOff
    /\ ValidatorOff
    /\ BalanceOff
    /\ EngineOff
    /\ AgentsOff

\* the query for the row, and the update to RUNNING
TaskBegin ==
    /\ t_pc = "queued"
    /\ IF ~t_found
       THEN /\ t_pc' = "done"
            /\ UNCHANGED scenario
       ELSE /\ scenario' = [scenario EXCEPT !.status = "RUNNING", !.progress = 10]
            /\ t_pc' = "running"
    /\ UNCHANGED <<t_found, t_report_data, t_params, t_keys, t_engine,
                   t_simulation, t_critic, t_reply>>
    /\ UNCHANGED nonTaskVars

\* the reconstruction of the report and the params, up to "progress = 30"
TaskPrepare ==
    /\ t_pc = "running"
    /\ IF ~FinancialReport(t_report_data).ok
       THEN /\ scenario' = Failed(scenario)
            /\ t_pc' = "done"
       ELSE /\ scenario' = [scenario EXCEPT !.progress = 30]
            /\ t_pc' = "simulate"
    /\ UNCHANGED <<t_found, t_report_data, t_params, t_keys, t_engine,
                   t_simulation, t_critic, t_reply>>
    /\ UNCHANGED nonTaskVars

\* step 1: simulation_service.run_simulation, up to "progress = 50"
TaskSimulate ==
    /\ t_pc = "simulate"
    /\ \E entropy1 \in Entropy, entropy2 \in Entropy, reply \in SimulatorReplies :
          LET report == FinancialReport(t_report_data).v
              params == ScenarioParams(t_params)
              first == run_monte_carlo(report, params,
                                       default_num_simulations, entropy1)
              outcome == run_simulation(first, report, params, t_keys.gemini,
                                        entropy2, reply)
          IN /\ t_engine' = first
             /\ t_reply' = IF first.ok /\ t_keys.gemini THEN reply ELSE NoReply
             /\ IF ~outcome.ok
                THEN /\ scenario' = Failed(scenario)
                     /\ t_pc' = "done"
                     /\ UNCHANGED t_simulation
                ELSE /\ scenario' = [scenario EXCEPT !.progress = 50]
                     /\ t_simulation' = Some(outcome.value)
                     /\ t_pc' = "critique"
    /\ UNCHANGED <<t_found, t_report_data, t_params, t_keys, t_critic>>
    /\ UNCHANGED nonTaskVars

\* mutant: the verdict of the critic is stored on the row as soon as it is there
TaskCritique_Stores ==
    /\ t_pc = "critique"
    /\ \E reply \in CriticReplies :
          LET outcome == agents_critique(FinancialReport(t_report_data).v,
                                         t_simulation.v, t_keys.deepseek, reply)
          IN
          IF ~outcome.ok
          THEN /\ scenario' = Failed(scenario)
               /\ t_pc' = "done"
               /\ UNCHANGED t_critic
          ELSE /\ scenario' = [scenario EXCEPT !.progress = 70,
                                               !.critic_verdict = Some(outcome.verdict)]
               /\ t_critic' = Some(outcome.verdict)
               /\ t_pc' = "debate"
    /\ UNCHANGED <<t_found, t_report_data, t_params, t_keys, t_engine,
                   t_simulation, t_reply>>
    /\ UNCHANGED nonTaskVars

\* step 2: agents_service.critique, up to "progress = 70"
TaskCritique ==
    /\ t_pc = "critique"
    /\ \E reply \in CriticReplies :
          LET outcome == agents_critique(FinancialReport(t_report_data).v,
                                         t_simulation.v, t_keys.deepseek, reply)
          IN
          IF ~outcome.ok
          THEN /\ scenario' = Failed(scenario)
               /\ t_pc' = "done"
               /\ UNCHANGED t_critic
          ELSE /\ scenario' = [scenario EXCEPT !.progress = 70]
               /\ t_critic' = Some(outcome.verdict)
               /\ t_pc' = "debate"
    /\ UNCHANGED <<t_found, t_report_data, t_params, t_keys, t_engine,
                   t_simulation, t_reply>>
    /\ UNCHANGED nonTaskVars

\* steps 3 and 4: agents_service.run_debate and the update to COMPLETED
TaskDebate ==
    /\ t_pc = "debate"
    /\ \E outcome \in DebateOutcomes :
          IF ~t_keys.gemini \/ ~t_keys.deepseek \/ ~outcome.ok
          THEN scenario' = Failed(scenario)
          ELSE scenario' =
                  [scenario EXCEPT !.status = "COMPLETED",
                                   !.progress = 100,
                                   !.simulation_results = t_simulation,
                                   !.critic_verdict = t_critic,
                                   !.debate_result = Some(outcome),
                                   !.final_verdict = Some(outcome.final_verdict)]
    /\ t_pc' = "done"
    /\ UNCHANGED <<t_found, t_report_data, t_params, t_keys, t_engine,
                   t_simulation, t_critic, t_reply>>
    /\ UNCHANGED nonTaskVars

TaskNext ==
    \/ TaskBegin
    \/ TaskPrepare
    \/ TaskSimulate
    \/ TaskCritique
    \/ TaskDebate

TaskSpec == TaskInit /\ [][TaskNext]_vars

----------------------------------------------------------------------------
(* AgentsService.run_debate and the key store *)

\* the background tasks that run a debate at the same time
Runs == {"first", "second"}

\* key_name.upper()
upper(key_name) ==
    CASE key_name = "gemini_api_key" -> "GEMINI_API_KEY"
      [] key_name = "deepseek_api_key" -> "DEEPSEEK_API_KEY"

\* d.get(key) and os.getenv(name): the value, or None
get(d, key) == IF key \in DOMAIN d THEN Some(d[key]) ELSE None

\* d[key] = value
Put(d, key, value) ==
    [k \in DOMAIN d \cup {key} |-> IF k = key THEN value ELSE d[k]]

\* bool(x) of an optional string
Configured(x) == x.set /\ x.v # ""

\* a lookup that falls back to a built-in key when none is configured
get_api_key_Builtin(key_name) ==
    LET found == IF Configured(get(api_keys, key_name))
                 THEN get(api_keys, key_name)
                 ELSE get(environ, upper(key_name))
    IN IF Configured(found) THEN found ELSE Some("builtin")

\* get_api_key: _api_keys.get(key_name) or os.getenv(key_name.upper())
get_api_key(key_name) ==
    IF Configured(get(api_keys, key_name))
    THEN get(api_keys, key_name)
    ELSE get(environ, upper(key_name))

\* the locals of a run before AgentsService.run_debate is entered
NewRun ==
    [pc |-> "start", store |-> <<>>, gemini_key |-> None,
     deepseek_key |-> None, gemini |-> None, deepseek |-> None,
     debate_log |-> <<>>, convergence_counter |-> 0, result |-> None]

\* the environments the process may be started in
Environments ==
    { <<>>,
      [n \in {"GEMINI_API_KEY"} |-> ""],
      [n \in {"GEMINI_API_KEY", "DEEPSEEK_API_KEY"} |->
          IF n = "GEMINI_API_KEY" THEN "g0" ELSE "d0"] }

\* the bodies posted to save_api_keys
PostedKeys ==
    [gemini_api_key : {None, Some("g1"), Some("g2")},
     deepseek_api_key : {None, Some("d1")}]

AgentsInit ==
    /\ api_keys = <<>>
    /\ environ \in Environments
    /\ genai_key = None
    /\ runs = [r \in Runs |-> NewRun]
    /\ DebateOff
    /\ ValidatorOff
    /\ BalanceOff
    /\ EngineOff
    /\ TaskOff

\* POST /keys
save_api_keys ==
    /\ \E keys \in PostedKeys :
          LET with_gemini ==
                  IF Configured(keys.gemini_api_key)
                  THEN Put(api_keys, "gemini_api_key", keys.gemini_api_key.v)
                  ELSE api_keys
          IN api_keys' =
                  IF Configured(keys.deepseek_api_key)
                  THEN Put(with_gemini, "deepseek_api_key",
                           keys.deepseek_api_key.v)
                  ELSE with_gemini
    /\ UNCHANGED <<environ, genai_key, runs>>
    /\ UNCHANGED nonAgentsVars

\* DELETE /keys
clear_api_keys ==
    /\ api_keys' = <<>>
    /\ UNCHANGED <<environ, genai_key, runs>>
    /\ UNCHANGED nonAgentsVars

\* AgentsService._get_debate_agent up to the call of DebateAgent(...)
GetDebateAgent(r) ==
    /\ runs[r].pc = "start"
    /\ LET gemini_key == get_api_key("gemini_api_key")
           deepseek_key == get_api_key("deepseek_api_key")
       IN runs' = [runs EXCEPT
                     ![r].store = api_keys,
                     ![r].gemini_key = gemini_key,
                     ![r].deepseek_key = deepseek_key,
                     ![r].pc = IF ~Configured(gemini_key) THEN "raised"
                               ELSE IF ~Configured(deepseek_key) THEN "raised"
                               ELSE "init"]
    /\ UNCHANGED <<api_keys, environ, genai_key>>
    /\ UNCHANGED nonAgentsVars

\* DebateAgent.__init__: genai.configure(api_key=gemini_api_key)
Configure(r) ==
    /\ runs[r].pc = "init"
    /\ genai_key' = runs[r].gemini_key
    /\ runs' = [runs EXCEPT ![r].pc = "configured"]
    /\ UNCHANGED <<api_keys, environ>>
    /\ UNCHANGED nonAgentsVars

\* DebateAgent.__init__ from genai.GenerativeModel(...) on: the Gemini model
\* takes the key configured for the process, now or at its first call; the
\* DeepSeek client is built with the key passed; RealismValidatorAgent
\* configures the process again
BuildClients(r) ==
    /\ runs[r].pc = "configured"
    /\ \E at_first_call \in BOOLEAN :
          runs' = [runs EXCEPT
                     ![r].gemini = IF at_first_call THEN None ELSE genai_key,
                     ![r].deepseek = runs[r].deepseek_key,
                     ![r].pc = "debating"]
    /\ genai_key' = runs[r].gemini_key
    /\ UNCHANGED <<api_keys, environ>>
    /\ UNCHANGED nonAgentsVars

\* an Optimist turn of run_debate: the external call and the append
OptimistTurn(r) ==
    /\ runs[r].pc = "debating"
    /\ Len(runs[r].debate_log) < MaxTurns
    /\ Len(runs[r].debate_log) % 2 = 0
    /\ LET client == IF runs[r].gemini.set THEN runs[r].gemini ELSE genai_key
       IN runs' = [runs EXCEPT
                     ![r].gemini = client,
                     ![r].debate_log =
                         Append(@, [speaker |-> "Gemini",
                                    credential |-> client.v])]
    /\ UNCHANGED <<api_keys, environ, genai_key>>
    /\ UNCHANGED nonAgentsVars

\* a Skeptic turn of run_debate: the external call, the append, and the
\* update of the convergence counter
SkepticTurn(r) ==
    /\ runs[r].pc = "debating"
    /\ Len(runs[r].debate_log) < MaxTurns
    /\ Len(runs[r].debate_log) % 2 = 1
    /\ \E new_objections \in BOOLEAN :
          runs' = [runs EXCEPT
                     ![r].debate_log =
                         Append(@, [speaker |-> "DeepSeek",
                                    credential |-> runs[r].deepseek.v]),
                     ![r].convergence_counter =
                         IF new_objections THEN 0 ELSE @ + 1]
    /\ UNCHANGED <<api_keys, environ, genai_key>>
    /\ UNCHANGED nonAgentsVars

\* the return of run_debate
ReturnResult(r) ==
    /\ runs[r].pc = "debating"
    /\ Len(runs[r].debate_log) = MaxTurns
    /\ runs' = [runs EXCEPT
                  ![r].result = Some([debate_log |-> runs[r].debate_log]),
                  ![r].pc = "done"]
    /\ UNCHANGED <<api_keys, environ, genai_key>>
    /\ UNCHANGED nonAgentsVars

AgentsNext ==
    \/ save_api_keys
    \/ clear_api_keys
    \/ \E r \in Runs : GetDebateAgent(r)
    \/ \E r \in Runs : Configure(r)
    \/ \E r \in Runs : BuildClients(r)
    \/ \E r \in Runs : OptimistTurn(r)
    \/ \E r \in Runs : SkepticTurn(r)
    \/ \E r \in Runs : ReturnResult(r)

AgentsSpec == AgentsInit /\ [][AgentsNext]_vars

----------------------------------------------------------------------------
(* Properties *)

Returned == pc = "done"
Last(seq) == seq[Len(seq)]

\* the number of consecutive TRUE entries at the end of a history of checks
RECURSIVE TrailingRun(_)
TrailingRun(h) ==
    IF h = <<>> \/ ~Last(h) THEN 0 ELSE 1 + TrailingRun(SubSeq(h, 1, Len(h) - 1))

\* the reply is exactly the label, in any letter case
IsLabel(reply, label) ==
    reply.ok /\ Len(reply.text) = 1 /\ Upper(reply.text[1]) = label

OptimistTurnsFrom2 ==
    Cardinality({i \in 1..Len(debate_log) :
                    /\ debate_log[i].role = "Optimist"
                    /\ debate_log[i].round_number >= 2})

\* C1: run_debate always returns a DebateResult: no failure of an external
\* call (Optimist or Skeptic generation, validator, convergence check,
\* synthesis) propagates out of run_debate.
C1_NoFailurePropagates == pc # "raised"

\* C2: for max_rounds >= 1 the loop stops by max_rounds whatever the
\* classifier answers: every turn of the transcript has
\* round_number <= max_rounds, and the returned total_rounds is <= max_rounds.
C2_StopsByMaxRounds ==
    max_rounds >= 1 =>
       /\ \A i \in 1..Len(debate_log) : debate_log[i].round_number <= max_rounds
       /\ round_num <= max_rounds
       /\ Returned => result.total_rounds <= max_rounds

C2_Witness ==
    /\ Returned
    /\ max_rounds >= 3
    /\ result.total_rounds = max_rounds
    /\ \E i \in 1..Len(qualHistory) : qualHistory[i]

\* C3: the convergence counter never exceeds the number of consecutive
\* qualifying checks ending at the current round, and a DIVERGED
\* classification, like any non-qualifying check, resets it to zero.
C3_CounterIsConsecutive ==
    /\ convergence_counter <= TrailingRun(qualHistory)
    /\ (qualHistory # <<>> /\ ~Last(qualHistory)) => convergence_counter = 0
    /\ (lastCheck.called /\ IsLabel(lastCheck.reply, "DIVERGED"))
          => convergence_counter = 0

C3_Witness ==
    /\ Len(qualHistory) >= 3
    /\ SubSeq(qualHistory, Len(qualHistory) - 2, Len(qualHistory))
          = <<TRUE, FALSE, TRUE>>
    /\ convergence_counter = 1

\* the state part of C4
ConvergedAtThreshold ==
    /\ converged <=> convergence_counter >= convergence_threshold
    /\ converged =>
          /\ convergence_counter = convergence_threshold
          /\ convergence_round = round_num
          /\ pc \in {"synthesize", "done", "raised"}
          /\ Len(debate_log) = 2 * round_num - 1
          /\ Last(debate_log).role = "Optimist"
          /\ Last(debate_log).round_number = convergence_round
          /\ \A i \in 1..Len(debate_log) :
                debate_log[i].role = "Skeptic"
                   => debate_log[i].round_number < convergence_round
    /\ ~converged => convergence_round = NoRound

\* the step part of C4
NoTurnAfterConvergence ==
    [][converged => /\ debate_log' = debate_log
                    /\ validated' = validated
                    /\ attemptLog' = attemptLog
                    /\ deepseek_challenge' = deepseek_challenge]_vars

\* C4: convergence is declared exactly when the counter reaches the
\* threshold; then the loop has ended, converged is True, convergence_round
\* is the current round, the transcript ends with the Optimist turn of that
\* round (no Skeptic turn in or after it), and from then on no text is
\* generated or validated.
C4_DeclaredAtThreshold == []ConvergedAtThreshold /\ NoTurnAfterConvergence

C4_Witness ==
    /\ Returned
    /\ result.converged
    /\ result.convergence_round < max_rounds
    /\ Len(result.debate_log) = 2 * result.convergence_round - 1

\* C5: a CONVERGED classification always qualifies; a PARTIAL one qualifies
\* only if the transcript holds at least 8 turns at the time of the check;
\* a non-qualifying check resets the counter.
C5_PartialGrace ==
    /\ lastCheck.called =>
          /\ IsLabel(lastCheck.reply, "CONVERGED") => lastCheck.value
          /\ IsLabel(lastCheck.reply, "PARTIAL")
                => (lastCheck.value <=> lastCheck.len >= 8)
    /\ (qualHistory # <<>> /\ lastCheck.value) => convergence_counter >= 1
    /\ (qualHistory # <<>> /\ ~lastCheck.value) => convergence_counter = 0

C5_Witness ==
    /\ lastCheck.called
    /\ IsLabel(lastCheck.reply, "PARTIAL")
    /\ lastCheck.len >= 8
    /\ lastCheck.value
    /\ convergence_counter >= 1

\* C6: a convergence check runs after every Optimist turn from round 2 on,
\* and the classification call is never issued while the transcript holds
\* fewer than 4 turns.
C6_CheckAfterEveryResponse ==
    /\ Len(qualHistory) = OptimistTurnsFrom2 - (IF pc = "check" THEN 1 ELSE 0)
    /\ lastCheck.called => lastCheck.len >= 4
    /\ qualHistory # <<>> => lastCheck.len = 2 * Len(qualHistory) + 1
    /\ (qualHistory # <<>> /\ lastCheck.len < 4) => ~lastCheck.called

C6_Witness ==
    /\ Len(qualHistory) >= 2
    /\ lastCheck.called
    /\ pc = "counter"

\* C7: an Optimist turn makes at most 3 generation attempts; the text of the
\* first attempt that passes validation is used; if 3 attempts are all
\* rejected, the text of the last one is used and the debate proceeds.
C7_BoundedRetries ==
    /\ Len(attemptLog) <= 3
    /\ \A i \in 1..Len(attemptLog) :
          attemptLog[i].kind = "valid" => i = Len(attemptLog)
    /\ (pc \in {"challenge", "check"}) =>
          /\ attemptLog # <<>>
          /\ Last(debate_log).role = "Optimist"
          /\ Last(debate_log).message = Last(attemptLog).text
          /\ \/ Last(attemptLog).kind = "valid"
             \/ /\ Len(attemptLog) = 3
                /\ Last(attemptLog).kind = "rejected"
    /\ (Len(attemptLog) = 3 /\ \A i \in 1..3 : attemptLog[i].kind = "rejected")
          => \E i \in 1..Len(debate_log) :
                /\ debate_log[i].role = "Optimist"
                /\ debate_log[i].message = attemptLog[3].text

C7_Witness ==
    /\ pc = "check"
    /\ Len(attemptLog) = 3
    /\ \A i \in 1..3 : attemptLog[i].kind = "rejected"
    /\ Last(debate_log).message = attemptLog[3].text
    /\ attemptLog[3].text # attemptLog[1].text

\* C8: the validator is invoked only on candidate Optimist texts; no Skeptic
\* text is ever handed to it.
C8_OnlyOptimistValidated ==
    /\ validated \subseteq {"Gemini"}
    /\ \A i \in 1..Len(debate_log) :
          debate_log[i].role = "Skeptic"
             => /\ debate_log[i].message.by = "DeepSeek"
                /\ debate_log[i].message.by \notin validated
    /\ \A i \in 1..Len(debate_log) :
          debate_log[i].role = "Optimist" => debate_log[i].message.by \in validated

C8_Witness ==
    /\ Len(debate_log) >= 4
    /\ Last(debate_log).role = "Skeptic"
    /\ Last(debate_log).round_number >= 2
    /\ validated # {}

\* the synthesis call raised, or the text it returned does not parse to a
\* JSON object
SynthesisFailed ==
    \/ ~synthReply.ok
    \/ LET data == json_loads(consensus_strip(synthReply.text))
       IN data = ParseError \/ data.t # "obj"

\* C9: if the synthesis call raises or its response does not parse to a JSON
\* object, run_debate still returns a DebateResult with the full transcript,
\* final_verdict Hold and confidence_level Low.
C9_SynthesisFallback ==
    (synthReply # NoSynthesis /\ SynthesisFailed)
    => /\ pc = "done"
       /\ result.debate_log = debate_log
       /\ result.final_verdict = "Hold"
       /\ result.confidence_level = "Low"

C9_Witness ==
    /\ Returned
    /\ synthReply = Reply(<<Prose, Json(GoodConsensus)>>)
    /\ Len(result.debate_log) >= 4
    /\ result.final_verdict = "Hold"

\* C10: every returned DebateResult has final_verdict in
\* {Buy, Cautious Buy, Hold, Cautious Sell, Sell} and confidence_level in
\* {High, Medium, Low}, whatever text the synthesis call returns.
C10_VerdictInEnumeration ==
    Returned => /\ result.final_verdict \in Verdicts
                /\ result.confidence_level \in ConfidenceLevels

\* C11: the transcript alternates Optimist, Skeptic within each round, the
\* Optimist speaking first and the two turns of round r standing at
\* positions 2r-1 and 2r; every prompt for a Skeptic turn embeds the
\* Optimist text of the same round, and every prompt for an Optimist
\* response embeds the Skeptic text of the round before, that is, the text
\* of the immediately preceding turn.
C11_AlternatingTurns ==
    /\ \A i \in 1..Len(debate_log) :
          /\ debate_log[i].round_number = ((i - 1) \div 2) + 1
          /\ debate_log[i].role = IF i % 2 = 1 THEN "Optimist" ELSE "Skeptic"
          /\ debate_log[i].speaker = IF i % 2 = 1 THEN "Gemini" ELSE "DeepSeek"
    /\ promptFrom.role = "Skeptic" =>
          /\ Len(debate_log) >= 2 * promptFrom.round - 1
          /\ promptFrom.text = debate_log[2 * promptFrom.round - 1].message
    /\ (promptFrom.role = "Optimist" /\ promptFrom.round >= 2) =>
          /\ Len(debate_log) >= 2 * (promptFrom.round - 1)
          /\ promptFrom.text = debate_log[2 * (promptFrom.round - 1)].message
    /\ (promptFrom.role = "Optimist" /\ promptFrom.round = 1) =>
          promptFrom.text = NoText

\* a response of round 3 was built and the transcript holds two full rounds
C11_Witness ==
    /\ promptFrom.role = "Optimist"
    /\ promptFrom.round = 3
    /\ Len(debate_log) >= 5
    /\ debate_log[5].role = "Optimist"
    /\ promptFrom.text = debate_log[4].message
    /\ debate_log[4].message # debate_log[2].message

\* the blocklisted terms a phrase contains when case is ignored
TermsIn(phrase) ==
    CASE phrase \in {"new product launch", "New Product Launch"}
              -> {"new product", "product launch"}
      [] phrase = "PRE-ORDER" -> {"pre-order"}
      [] phrase = "market research" -> {"market research"}
      [] OTHER -> {}

BlockedTermsOf(statement) == UNION { TermsIn(ph) : ph \in statement.phrases }

\* C12: a statement that contains a blocklisted term, in any letter case, is
\* returned is_valid = False with one issue per matched term and without any
\* external call; an external call is only ever issued after the scan found
\* nothing.
C12_BlocklistRejects ==
    /\ (v_pc = "returned" /\ BlockedTermsOf(v_statement) # {}) =>
          /\ v_result.t = "obj"
          /\ v_result.o.is_valid = JBool(FALSE)
          /\ Len(v_result.o.issues.l) = Cardinality(BlockedTermsOf(v_statement))
          /\ { v_result.o.issues.l[i] : i \in 1..Len(v_result.o.issues.l) }
                = BlockedTermsOf(v_statement)
          /\ v_calls = 0
          /\ v_reply = NoReply
    /\ v_calls > 0 => (v_pc = "returned" /\ BlockedTermsOf(v_statement) = {})
    /\ v_pc = "scanned" => BlockedTermsOf(v_statement) = {}

\* a statement with "New Product Launch" and "PRE-ORDER" was rejected with
\* three issues
C12_Witness ==
    /\ v_pc = "returned"
    /\ {"New Product Launch", "PRE-ORDER"} \subseteq v_statement.phrases
    /\ v_result.o.is_valid = JBool(FALSE)
    /\ Len(v_result.o.issues.l) = 3
    /\ v_calls = 0

\* the replies whose text json.loads rejects after the fence stripping
UnparseableReplies ==
    { Reply(<<Prose>>), Reply(<<Prose, Json(FailOpen)>>),
      Reply(<<FenceJson, Prose, Fence>>) }

\* C13: when the scan passes and the external call raises or returns text
\* that is not JSON, validate_statement returns is_valid = True with an empty
\* issues list.
C13_FailsOpen ==
    (v_pc = "returned" /\ v_calls = 1
        /\ (~v_reply.ok \/ v_reply \in UnparseableReplies)) =>
       /\ v_result.t = "obj"
       /\ v_result.o.is_valid = JBool(TRUE)
       /\ v_result.o.issues = JList(<<>>)

\* both a raising call and an unparseable text were answered by the fallback
C13_Witness ==
    /\ v_pc = "returned"
    /\ v_calls = 1
    /\ v_reply = Reply(<<FenceJson, Prose, Fence>>)
    /\ v_result.o.is_valid = JBool(TRUE)

\* C14: every value validate_statement returns is an object with the fields
\* is_valid (a boolean), issues (a list) and feedback.
C14_ReturnsContract ==
    v_pc = "returned" =>
       /\ v_result.t = "obj"
       /\ {"is_valid", "issues", "feedback"} \subseteq DOMAIN v_result.o
       /\ v_result.o.is_valid.t = "bool"
       /\ v_result.o.issues.t = "list"

\* the sheet of the scenario: assets $1,000, liabilities $700, equity $250
ScenarioSheet ==
    [Assets |-> [k \in {"TotalAssets"} |-> 100000],
     Liabilities |-> [k \in {"TotalLiabilities"} |-> 70000],
     Equity |-> [k \in {"TotalEquity"} |-> 25000]]

\* the total the sheet states for a mapping, or else the sum of its line items
StatedOrSummed(mapping, total_key) ==
    IF total_key \in DOMAIN mapping THEN mapping[total_key]
    ELSE IF "Cash" \in DOMAIN mapping /\ "Inventory" \in DOMAIN mapping
         THEN mapping["Cash"] + mapping["Inventory"]
    ELSE IF DOMAIN mapping = {} THEN 0
    ELSE mapping[CHOOSE k \in DOMAIN mapping : TRUE]

\* C19: check_balance_sheet returns difference = total assets - (total
\* liabilities + total equity) and is_balanced exactly when the absolute
\* difference is below one dollar; for assets 1000, liabilities 700 and
\* equity 250 it returns is_balanced = False and difference = 50.
C19_BalanceDifference ==
    b_pc = "returned" =>
       LET a == StatedOrSummed(b_sheet.Assets, "TotalAssets")
           l == StatedOrSummed(b_sheet.Liabilities, "TotalLiabilities")
           e == StatedOrSummed(b_sheet.Equity, "TotalEquity")
           v == b_result.value
       IN /\ v.difference = a - (l + e)
          /\ v.is_balanced = (v.difference > -OneDollar /\ v.difference < OneDollar)
          /\ b_sheet = ScenarioSheet =>
                (v.is_balanced = FALSE /\ v.difference = 50 * OneDollar)

\* a sheet that is off by exactly one dollar was returned as unbalanced
C19_Witness ==
    /\ b_pc = "returned"
    /\ b_result.value.difference = OneDollar
    /\ ~b_result.value.is_balanced

\* C20: check_balance_sheet never raises, whatever keys the three mappings
\* hold; a mapping without its Total key counts as the sum of its other
\* line items, and as zero when it has none.
C20_NeverRaises ==
    /\ b_pc # "raised"
    /\ b_pc = "returned" =>
          /\ b_result.ok
          /\ "TotalAssets" \notin DOMAIN b_sheet.Assets =>
                b_result.value.total_assets =
                   (IF "Cash" \in DOMAIN b_sheet.Assets
                    THEN b_sheet.Assets["Cash"] ELSE 0)
                   + (IF "Inventory" \in DOMAIN b_sheet.Assets
                      THEN b_sheet.Assets["Inventory"] ELSE 0)
          /\ (b_sheet.Liabilities = <<>> /\ b_sheet.Equity = <<>>) =>
                b_result.value.total_liabs_equity = 0

\* a sheet of three empty mappings was answered: totals zero, balanced
C20_Witness ==
    /\ b_pc = "returned"
    /\ b_sheet = NoSheet
    /\ b_result.value.total_assets = 0
    /\ b_result.value.is_balanced

\* the effective discount rate of a run, in basis points: 8% plus the delta
EffectiveRate(params) == 800 + params.discount_rate_bps

\* C16: for every discount_rate_bps the rate r used in the valuation strictly
\* exceeds g = 2%: r is 8% + discount_rate_bps/10000 when that exceeds 2%,
\* and 3% otherwise.
C16_RateAboveGrowth ==
    (e_pc # "start" /\ e_first.ok) =>
       /\ \/ e_first.rate.bps > 200
          \/ e_first.rate.bps = 200 /\ e_first.rate.residue > 0
       /\ e_first.rate.bps = IF EffectiveRate(e_params) > 200
                              THEN EffectiveRate(e_params) ELSE 300

\* the free cash flow of one forecast year as the formula of the claim gives it
FormulaFcf(report, params, revenue, ebitda) ==
    LET tax == (IF "TaxRate" \in DOMAIN report.kpis
                THEN report.kpis["TaxRate"] ELSE 2500) + params.tax_rate_delta_bps
        da == Scale(revenue, Ratio(report.DepreciationAndAmortization,
                                   report.Revenue))
        capex == Scale(revenue, Ratio(report.CapEx, report.Revenue))
        wc == Scale(revenue, Ratio(report.ChangeInWorkingCapital, report.Revenue))
        ebit == ebitda - da
    IN Scale(ebit, Bps - tax) + da - capex - wc

\* C17: in every trial and every forecast year, free cash flow is
\* EBIT x (1 - effective tax rate) + D&A - CapEx - change in working capital,
\* with CapEx and the working-capital change scaled from their base-year
\* ratios to revenue.
C17_FreeCashFlow ==
    (e_pc # "start" /\ e_first.ok) =>
       \A i \in 1..Len(e_first.value.simulation_runs) :
          \A t \in 1..5 :
             LET run == e_first.value.simulation_runs[i]
             IN run.fcf_forecast[t] =
                   FormulaFcf(e_report, e_params,
                              run.revenue_forecast[t], run.ebitda_forecast[t])

\* C18: two calls of run_monte_carlo with the same statement and params
\* return identical numeric fields, whatever state the first call and the
\* system's entropy left behind.
C18_Deterministic ==
    e_pc = "twice" => e_first = e_second

\* two calls returned a simulation whose trials differ from one another
C18_Witness ==
    /\ e_pc = "twice"
    /\ e_first.ok /\ e_second.ok
    /\ Len(e_second.value.simulation_runs) >= 2
    /\ e_second.value.simulation_runs[1].npv # e_second.value.simulation_runs[2].npv
    /\ e_second.value.median_npv = e_first.value.median_npv

\* C15: run_monte_carlo fails with an input error whenever base revenue is
\* not positive, before any trial is computed and without returning an
\* AggregatedSimulation; the scenario task then ends FAILED with no
\* simulation results stored.
C15_NonPositiveRevenueIsFatal ==
    (FinancialReport(t_report_data).ok /\ t_report_data.Revenue <= 0) =>
       /\ t_pc \notin {"critique", "debate"}
       /\ t_simulation = None
       /\ scenario.status # "COMPLETED"
       /\ scenario.simulation_results = None
       /\ t_engine.made =>
             /\ ~t_engine.ok
             /\ t_engine.error = "ValueError"
             /\ t_engine.trials = 0
             /\ "value" \notin DOMAIN t_engine
             /\ t_pc = "done"
             /\ scenario.status = "FAILED"
             /\ scenario.error_message # None

\* a task whose report has revenue 0 ended FAILED after the engine raised
C15_Witness ==
    /\ t_pc = "done"
    /\ FinancialReport(t_report_data).ok
    /\ t_report_data.Revenue = 0
    /\ t_keys.gemini /\ t_keys.deepseek
    /\ t_engine = ValueError
    /\ scenario.status = "FAILED"
    /\ scenario.simulation_results = None

\* C21: a second call of check_balance_sheet on the same sheet returns what
\* the first returned, and no call changes the Assets, Liabilities or Equity
\* mapping of its argument.
C21_BalanceIdempotent ==
    /\ b_pc # "off" => b_sheet = b_given
    /\ b_pc \in {"again", "validated"} => b_second = b_result

\* an unbalanced sheet with stated totals was checked twice
C21_Witness ==
    /\ b_pc = "again"
    /\ "TotalAssets" \in DOMAIN b_given.Assets
    /\ "Cash" \in DOMAIN b_given.Assets
    /\ b_result.ok
    /\ ~b_result.value.is_balanced
    /\ b_second.value.difference = b_result.value.difference

\* TRUE when validate_balance_sheet reported an error for the balance equation
ReportsImbalance(errors) ==
    \E i \in 1..Len(errors) : errors[i].field = "BalanceSheet"

\* C22 (as stated): the validator variant is the stricter one, so a sheet
\* for which it reports no BalanceSheet error is reported is_balanced = True
\* by check_balance_sheet.
C22_ValidatorStricter ==
    (b_pc = "validated" /\ ~ReportsImbalance(b_errors)) =>
       b_result.value.is_balanced

\* TRUE when the sheet states its three totals
StatesTotals(bs) ==
    /\ "TotalAssets" \in DOMAIN bs.Assets
    /\ "TotalLiabilities" \in DOMAIN bs.Liabilities
    /\ "TotalEquity" \in DOMAIN bs.Equity

\* C22 (amended): the validator variant is the looser one.  It reports a
\* BalanceSheet error exactly when |assets - (liabilities + equity)| exceeds
\* the larger of 1% of total assets and one dollar, with a missing total read
\* as zero; so for a sheet that states its three totals, is_balanced = True
\* from check_balance_sheet implies no BalanceSheet error.
C22_ValidatorLooser ==
    b_pc = "validated" =>
       LET a == IF "TotalAssets" \in DOMAIN b_given.Assets
                THEN b_given.Assets["TotalAssets"] ELSE 0
           l == IF "TotalLiabilities" \in DOMAIN b_given.Liabilities
                THEN b_given.Liabilities["TotalLiabilities"] ELSE 0
           e == IF "TotalEquity" \in DOMAIN b_given.Equity
                THEN b_given.Equity["TotalEquity"] ELSE 0
           d == a - (l + e)
       IN /\ ReportsImbalance(b_errors) <=>
                \/ (d > OneDollar /\ 100 * d > a)
                \/ (-d > OneDollar /\ 100 * (-d) > a)
          /\ (StatesTotals(b_given) /\ b_result.value.is_balanced) =>
                ~ReportsImbalance(b_errors)

\* a sheet off by one dollar on assets of 1000 passed the validator variant
\* while check_balance_sheet reported it unbalanced
C22_Witness ==
    /\ b_pc = "validated"
    /\ StatesTotals(b_given)
    /\ b_result.value.difference = OneDollar
    /\ ~b_result.value.is_balanced
    /\ ~ReportsImbalance(b_errors)

\* the moves of the status column the record may make
StatusMoves ==
    { <<"PENDING", "RUNNING">>, <<"RUNNING", "COMPLETED">>,
      <<"RUNNING", "FAILED">> }

\* the run of execute_scenario_task has returned
TaskReturned == t_pc = "done"

\* C23: the status of a scenario record only moves PENDING -> RUNNING ->
\* COMPLETED or PENDING -> RUNNING -> FAILED, COMPLETED and FAILED are never
\* left, a run of execute_scenario_task that found its scenario has returned
\* with the record in exactly one of the two, and progress stays in 0..100
C23_StatusLifecycle ==
    /\ [][\/ scenario'.status = scenario.status
          \/ <<scenario.status, scenario'.status>> \in StatusMoves]_vars
    /\ []((TaskReturned /\ t_found) =>
            scenario.status \in {"COMPLETED", "FAILED"})
    /\ [](scenario.progress \in 0..100)

\* a run that went through every step and left the record COMPLETED at 100
C23_Witness ==
    /\ TaskReturned
    /\ t_found
    /\ scenario.status = "COMPLETED"
    /\ scenario.progress = 100

\* C24: an external call of the validator that raised was made again before
\* validate_statement returned its fallback: no site gives up on the first
\* failure of its external call
C24_FailedCallRetried ==
    (v_pc = "returned" /\ v_reply = Raise) => v_calls >= 2

\* neither the session store as the run read it nor the environment has the key
Absent(store, key_name) ==
    /\ key_name \notin DOMAIN store
    /\ upper(key_name) \notin DOMAIN environ

\* C25: when the Gemini key or the DeepSeek key is in neither the session
\* store nor the environment, AgentsService.run_debate raises before any
\* client is built or any external call is made, and returns no result
C25_MissingKeyFailsOutright ==
    \A r \in DOMAIN runs :
        (/\ runs[r].pc # "start"
         /\ \/ Absent(runs[r].store, "gemini_api_key")
            \/ Absent(runs[r].store, "deepseek_api_key")) =>
           /\ runs[r].pc = "raised"
           /\ runs[r].debate_log = <<>>
           /\ runs[r].gemini = None
           /\ runs[r].deepseek = None
           /\ runs[r].result = None

\* a run raised for a missing DeepSeek key while the other run, started
\* after the keys were saved, returned a result
C25_Witness ==
    \E r \in DOMAIN runs, other \in DOMAIN runs :
        /\ runs[r].pc = "raised"
        /\ ~Absent(runs[r].store, "gemini_api_key")
        /\ Absent(runs[r].store, "deepseek_api_key")
        /\ runs[other].pc = "done"

\* the fields of an AggregatedSimulation other than the two narrative ones
Figures(agg) ==
    [f \in DOMAIN agg \ {"assumption_log", "traceability"} |-> agg[f]]

\* enrichment calls that raised, or whose text is no JSON object
FailedEnrichments ==
    { Raise, Reply(<<Prose>>), Reply(<<Json(JList(<<>>))>>) }

\* C26: the enrichment step of SimulatorAgent.run_simulation leaves every
\* numeric field and the retained trials as the engine produced them; when
\* the enrichment call raised or its text is no JSON object, the whole
\* aggregate is returned as the engine produced it, and nothing is raised
C26_EnrichmentFrame ==
    /\ t_simulation.set =>
          Figures(t_simulation.v) = Figures(t_engine.value)
    /\ t_reply \in FailedEnrichments =>
          /\ t_simulation.set
          /\ t_simulation.v = t_engine.value

\* the enrichment call returned prose and the simulation was kept
C26_Witness ==
    /\ t_reply = Reply(<<Prose>>)
    /\ t_simulation.set
    /\ t_simulation.v.simulation_runs # <<>>
    /\ scenario.progress = 50

\* the verdict came from the success path, or from the except branch
FromSuccessPath(verdict) == verdict.cash_flow_check # <<>>

\* C27: on the success path and on the failure path of its external call,
\* CriticAgent.critique returns a verdict whose balance_sheet_check is the
\* result of check_balance_sheet for the report, and with a DeepSeek key it
\* returns one whatever the balance sheet is: the step after it is reached
C27_MismatchNeverFatal ==
    /\ t_critic.set =>
          t_critic.v.balance_sheet_check =
              check_balance_sheet(t_report_data.balance_sheet).value
    /\ (t_simulation.set /\ t_keys.deepseek /\ t_pc \in {"debate", "done"}) =>
          t_critic.set

\* a report whose sheet does not balance went through the except branch of
\* the critic and its scenario ended COMPLETED
C27_Witness ==
    /\ t_critic.set
    /\ ~FromSuccessPath(t_critic.v)
    /\ ~t_critic.v.balance_sheet_check.is_balanced
    /\ t_critic.v.balance_sheet_check.difference = 5000
    /\ scenario.status = "COMPLETED"

\* the same on the success path
C27_WitnessSuccess ==
    /\ t_critic.set
    /\ FromSuccessPath(t_critic.v)
    /\ ~t_critic.v.balance_sheet_check.is_balanced
    /\ scenario.status = "COMPLETED"

\* the outcomes of run_monte_carlo that returned
EngineOutcomes == { o \in {e_first, e_second} : o.ok }

\* C28: the dominant-driver label of each trial is "Revenue" when the sampled
\* growth delta has the strictly larger magnitude, "OpEx" when the sampled
\* OpEx shift has the strictly larger magnitude, and "OpEx" on a tie
C28_DominantDriver ==
    \A o \in EngineOutcomes :
        \A i \in 1..Len(o.value.simulation_runs) :
            LET growth == Abs(o.growth_deltas[i])
                shift == Abs(o.opex_shifts[i])
                label == o.value.simulation_runs[i].key_driver
            IN /\ growth > shift => label = "Revenue"
               /\ shift > growth => label = "OpEx"
               /\ growth = shift => label = "OpEx"

\* one run with a trial where the growth delta dominates and a trial where
\* the magnitudes tie, away from zero, labelled "OpEx"
C28_Witness ==
    /\ e_first.ok
    /\ \E i, k \in 1..Len(e_first.value.simulation_runs) :
          /\ Abs(e_first.growth_deltas[i]) > Abs(e_first.opex_shifts[i])
          /\ e_first.value.simulation_runs[i].key_driver = "Revenue"
          /\ Abs(e_first.growth_deltas[k]) = Abs(e_first.opex_shifts[k])
          /\ e_first.growth_deltas[k] # 0
          /\ e_first.value.simulation_runs[k].key_driver = "OpEx"

\* a trial where the OpEx shift dominates
C28_WitnessOpEx ==
    /\ e_first.ok
    /\ \E j \in 1..Len(e_first.value.simulation_runs) :
          /\ Abs(e_first.growth_deltas[j]) < Abs(e_first.opex_shifts[j])
          /\ e_first.value.simulation_runs[j].key_driver = "OpEx"

\* the smaller of two numbers
Min(a, b) == IF a < b THEN a ELSE b

\* C29: simulation_runs holds exactly min(num_simulations, 100) trials, and
\* they are the first ones in trial order: scenario_id 0, 1, 2, ...
C29_RetainsFirstHundred ==
    \A o \in EngineOutcomes :
        /\ Len(o.value.simulation_runs) = Min(o.trials, 100)
        /\ \A i \in 1..Len(o.value.simulation_runs) :
              o.value.simulation_runs[i].scenario_id = i - 1

\* a call that computed more than 100 trials and returned 100 of them
C29_Witness ==
    /\ e_first.ok
    /\ e_first.trials > 100
    /\ Len(e_first.value.simulation_runs) = 100
    /\ e_first.value.simulation_runs[100].scenario_id = 99

\* the key a turn's external call is to carry: the one its run read from the
\* key store for the speaker's client
OwnKey(r, turn) ==
    IF turn.speaker = "Gemini" THEN runs[r].gemini_key.v
    ELSE runs[r].deepseek_key.v

\* C30: debate runs that execute at the same time share no mutable state:
\* every external call of a run carries the credentials that run read, whatever
\* the other run and the key routes did in between
C30_RunsShareNothing ==
    \A r \in DOMAIN runs :
        \A i \in 1..Len(runs[r].debate_log) :
            runs[r].debate_log[i].credential = OwnKey(r, runs[r].debate_log[i])

\* the deltas submitted in the request, under the names of the fields of
\* ScenarioParams
Submitted(params) ==
    [opex_delta_bps |-> params.opex_delta_bps,
     revenue_growth_bps |-> params.revenue_growth_delta_bps,
     discount_rate_bps |-> params.discount_rate_delta_bps,
     tax_rate_delta_bps |-> params.tax_rate_delta_bps]

\* C31: once the simulation of a scenario has run, the ScenarioParams it was
\* handed, and the deltas its assumption log reports, are the four deltas
\* submitted in the request: none is dropped or replaced by its default 0
C31_DeltasReachTheEngine ==
    t_engine.ok =>
       /\ ScenarioParams(t_params) = Submitted(t_params)
       /\ t_engine.value.assumption_log.revenue_growth_bps =
              t_params.revenue_growth_delta_bps
       /\ t_engine.value.assumption_log.opex_delta_bps = t_params.opex_delta_bps

\* the feedback of the rejected attempts among the given ones, in order
RECURSIVE RejectionsOf(_)
RejectionsOf(attempts) ==
    IF attempts = <<>> THEN <<>>
    ELSE (IF attempts[1].kind = "rejected" THEN <<attempts[1].feedback>>
          ELSE <<>>) \o RejectionsOf(Tail(attempts))

\* C32: within one Optimist turn the prompt of each attempt is the turn's
\* prompt extended with the issues and feedback of every earlier rejected
\* attempt of that turn, in order; an attempt that raised adds nothing, and the
\* first attempt of a turn carries no feedback of an earlier turn
C32_FeedbackAccumulates ==
    /\ \A k \in 1..Len(attemptLog) :
          attemptLog[k].prompt = RejectionsOf(SubSeq(attemptLog, 1, k - 1))
    /\ attempt = 0 => prompt = <<>>
    /\ attempt > 0 => prompt = RejectionsOf(attemptLog)

\* a turn with two attempts rejected for different reasons, whose third
\* attempt ran with both rejections in its prompt, in order
C32_Witness ==
    /\ Len(attemptLog) = 3
    /\ attemptLog[1].kind = "rejected"
    /\ attemptLog[2].kind = "rejected"
    /\ attemptLog[1].feedback # attemptLog[2].feedback
    /\ attemptLog[3].prompt = <<attemptLog[1].feedback, attemptLog[2].feedback>>

\* an attempt that raised between two others added nothing to the prompt
C32_WitnessRaise ==
    /\ Len(attemptLog) = 3
    /\ attemptLog[1].kind = "rejected"
    /\ attemptLog[2].kind \in {"gen_raised", "val_raised"}
    /\ attemptLog[3].prompt = <<attemptLog[1].feedback>>

\* the Skeptic turns of the transcript
SkepticTurns == { i \in 1..Len(debate_log) : debate_log[i].role = "Skeptic" }

\* C33: the external calls of one run_debate are bounded by the rounds: in
\* each Optimist turn at most 3 generation calls and at most 3 validator
\* calls, one generation call for each Skeptic turn, at most one
\* classification call for each round from round 2 on, and one synthesis call
\* in a run that returned
C33_CallsBoundedByRounds ==
    /\ round_num <= max_rounds \/ round_num = 1
    /\ Len(attemptLog) <= 3
    /\ calls.validator_turn <= 3
    /\ calls.optimist <= 3 * round_num
    /\ pc # "raised" => calls.skeptic = Cardinality(SkepticTurns)
    /\ calls.skeptic <= Cardinality(SkepticTurns) + 1
    /\ calls.skeptic <= round_num
    /\ calls.classifier <= round_num - 1
    /\ calls.classifier <= Len(qualHistory)
    /\ calls.synthesis <= 1
    /\ pc = "done" => calls.synthesis = 1

\* a run that returned after using all three attempts and three validator
\* calls in a turn, with classification calls made
C33_Witness ==
    /\ pc = "done"
    /\ Len(attemptLog) = 3
    /\ calls.validator_turn = 3
    /\ calls.classifier >= 2
    /\ calls.skeptic = round_num
    /\ calls.synthesis = 1

\* the kinds of attempt that raised: in the generation call, or in reading
\* the validator's result
RaisedKinds == {"gen_raised", "val_raised"}

\* C34: in an Optimist turn an attempt that raises, in the generation call or
\* on a validator result without is_valid, uses up one of the 3 attempts; when
\* the third attempt raises the exception leaves run_debate, whatever text an
\* earlier attempt produced; when the third attempt does not raise, the text
\* of the turn is the third attempt's own
C34_ThirdAttemptDecides ==
    /\ Len(attemptLog) <= 3
    /\ attempt <= LastAttempt
    /\ (attempt > 0 /\ pc # "raised") => attempt = Len(attemptLog)
    /\ (Len(attemptLog) = 3 /\ attemptLog[3].kind \in RaisedKinds) =>
          /\ pc = "raised"
          /\ result = NoResult
    /\ (Len(attemptLog) = 3 /\ attemptLog[3].kind \notin RaisedKinds) =>
          /\ optimist_response = attemptLog[3].text
          /\ \E i \in 1..Len(debate_log) :
                /\ debate_log[i].role = "Optimist"
                /\ debate_log[i].round_number = attemptLog[3].text.round
                /\ debate_log[i].message = attemptLog[3].text

\* the third attempt raised on a validator result without is_valid after the
\* first attempt had produced a text: the run raised
C34_Witness ==
    /\ Len(attemptLog) = 3
    /\ attemptLog[1].kind = "rejected"
    /\ attemptLog[2].kind = "gen_raised"
    /\ attemptLog[3].kind = "val_raised"
    /\ pc = "raised"

\* the third attempt was rejected after two that raised: its text is the turn
C34_WitnessFallThrough ==
    /\ Len(attemptLog) = 3
    /\ attemptLog[1].kind = "val_raised"
    /\ attemptLog[2].kind = "gen_raised"
    /\ attemptLog[3].kind = "rejected"
    /\ optimist_response = attemptLog[3].text
    /\ optimist_response.attempt = 2

\* C35: every returned DebateResult is internally consistent: converged iff
\* convergence_round is set; a converged result has
\* total_rounds = convergence_round and 2 * total_rounds - 1 turns, the last
\* one by the Optimist; a result that did not converge has
\* total_rounds = max(max_rounds, 1) and 2 * total_rounds turns, the last one
\* by the Skeptic.
C35_ResultConsistent ==
    Returned =>
       /\ result.converged <=> result.convergence_round # NoRound
       /\ result.converged =>
             /\ result.total_rounds = result.convergence_round
             /\ Len(result.debate_log) = 2 * result.total_rounds - 1
             /\ Last(result.debate_log).role = "Optimist"
       /\ ~result.converged =>
             /\ result.total_rounds = Max(max_rounds, 1)
             /\ Len(result.debate_log) = 2 * result.total_rounds
             /\ Last(result.debate_log).role = "Skeptic"

\* a converged result of a run that had a non-qualifying check first
C35_Witness ==
    /\ Returned
    /\ result.converged
    /\ result.convergence_round < max_rounds
    /\ lastCheck.called
    /\ \E i \in 1..Len(qualHistory) : ~qualHistory[i]

\* a result that did not converge, of a run that was given no round at all
C35_WitnessNoRounds ==
    /\ Returned
    /\ ~result.converged
    /\ max_rounds = 0
    /\ result.total_rounds = 1
    /\ Len(result.debate_log) = 2

\* a result that did not converge after all the rounds it was given
C35_WitnessExhausted ==
    /\ Returned
    /\ ~result.converged
    /\ max_rounds >= 3
    /\ result.total_rounds = max_rounds

\* C36: convergence is never declared before round
\* convergence_threshold + 2: the check of round 2 sees three turns, issues
\* no classification call and does not qualify; so with threshold 2 the
\* earliest convergence_round is 4, and a run with
\* max_rounds < convergence_threshold + 2 never converges.
C36_NoEarlyConvergence ==
    /\ converged <=> convergence_round # NoRound
    /\ converged => convergence_round >= convergence_threshold + 2
    /\ Len(qualHistory) >= 1 => ~qualHistory[1]
    /\ (lastCheck.len = 3) => ~lastCheck.called /\ ~lastCheck.value
    /\ Len(qualHistory) = 1 =>
          /\ lastCheck.len = 3
          /\ convergence_counter = 0
          /\ ~converged
    /\ max_rounds < convergence_threshold + 2 => ~converged
    /\ Returned => (result.converged => result.convergence_round >= convergence_threshold + 2)

\* threshold 2: convergence declared in round 4, the earliest round
C36_Witness ==
    /\ Returned
    /\ convergence_threshold = 2
    /\ result.converged
    /\ result.convergence_round = 4

\* threshold 1: convergence declared in round 3
C36_WitnessThresholdOne ==
    /\ converged
    /\ convergence_threshold = 1
    /\ convergence_round = 3

\* a run of threshold + 1 rounds whose every classification said CONVERGED
\* returns without convergence
C36_WitnessTooShort ==
    /\ Returned
    /\ max_rounds = convergence_threshold + 1
    /\ ~result.converged
    /\ Len(qualHistory) >= 2
    /\ \A i \in 2..Len(qualHistory) : qualHistory[i]

\* a step of run_debate that evaluates convergence with a classification
\* call that raised
RaisedCheck ==
    /\ pc = "check"
    /\ pc' # "check"
    /\ lastCheck'.called
    /\ ~lastCheck'.reply.ok

\* C37: a classification call that raises is a non-qualifying check: the
\* counter is reset to zero, nothing propagates, convergence is not declared,
\* and the next turn is the Skeptic's counter-argument of the same round.
C37_RaisedCheckContinues ==
    [][ /\ RaisedCheck =>
              /\ convergence_counter' = 0
              /\ ~Last(qualHistory')
              /\ pc' = "counter"
              /\ ~converged'
              /\ convergence_round' = NoRound
              /\ round_num' = round_num
              /\ debate_log' = debate_log
        /\ (pc = "counter" /\ pc' \notin {"counter", "raised"}) =>
              /\ debate_log' = Append(debate_log, Last(debate_log'))
              /\ Last(debate_log').role = "Skeptic"
              /\ Last(debate_log').round_number = round_num
              /\ Last(debate_log').round_number = Last(debate_log).round_number
      ]_vars

\* a classification call raised after a qualifying check; the counter went
\* back to zero and the Skeptic's counter-argument followed in that round
C37_Witness ==
    /\ Len(qualHistory) >= 3
    /\ qualHistory[Len(qualHistory) - 1]
    /\ ~Last(qualHistory)
    /\ lastCheck.called
    /\ ~lastCheck.reply.ok
    /\ convergence_counter = 0
    /\ Len(debate_log) = lastCheck.len + 1
    /\ Last(debate_log).role = "Skeptic"
    /\ Last(debate_log).round_number = debate_log[lastCheck.len].round_number

\* the result fields of a scenario row
ResultFields(row) ==
    <<row.simulation_results, row.critic_verdict, row.debate_result,
      row.final_verdict>>

\* the values of progress in the order the success path writes them
ProgressSteps == <<0, 10, 30, 50, 70, 100>>

\* C38: in every state of a scenario record, status COMPLETED implies
\* progress 100 and all four result fields set; status FAILED implies
\* progress 0, error_message set and no result field set, even when the
\* simulation and the critique had succeeded before the step that failed;
\* on the success path progress only increases, 0, 10, 30, 50, 70, 100.
C38_RecordInvariants ==
    /\ [](scenario.status = "COMPLETED" =>
             /\ scenario.progress = 100
             /\ \A i \in 1..4 : ResultFields(scenario)[i].set)
    /\ [](scenario.status = "FAILED" =>
             /\ scenario.progress = 0
             /\ scenario.error_message.set
             /\ \A i \in 1..4 : ~ResultFields(scenario)[i].set)
    /\ [](scenario.status \in {"PENDING", "RUNNING"} =>
             /\ ~scenario.error_message.set
             /\ \A i \in 1..4 : ~ResultFields(scenario)[i].set)
    /\ [][(scenario' # scenario /\ scenario'.status # "FAILED") =>
             \E k \in 1..5 : /\ scenario.progress = ProgressSteps[k]
                             /\ scenario'.progress = ProgressSteps[k + 1]]_vars

\* the debate failed after the simulation and the critique had succeeded
C38_Witness ==
    /\ TaskReturned
    /\ scenario.status = "FAILED"
    /\ t_simulation.set
    /\ t_critic.set
    /\ scenario.progress = 0
    /\ scenario.error_message.set
    /\ ~scenario.simulation_results.set
    /\ ~scenario.critic_verdict.set

\* a record COMPLETED with what the steps produced
C38_WitnessCompleted ==
    /\ scenario.status = "COMPLETED"
    /\ scenario.simulation_results = t_simulation
    /\ scenario.critic_verdict = t_critic
    /\ scenario.debate_result.set
    /\ scenario.final_verdict.set
    /\ ~scenario.error_message.set

====
